---- MODULE Spec2Model ----
(***************************************************************************)
(* Component recommendation engine of circuit-forge-play:                  *)
(*   lib/component_data.py        the catalog store                        *)
(*   lib/document_analyzer.py     the heuristics analyzer                  *)
(*   lib/component_suggestions.py the recommendation engine                *)
(*   lib/web_component_scraper.py the distributor lookup                   *)
(*                                                                         *)
(* Numbers.  Python floats are modelled as exact rationals kept as scaled  *)
(* integers:                                                               *)
(*   voltages V, capacitance uF, inductance uH, DCR mOhm, qg nC : units    *)
(*   MOSFET id : A;  MOSFET rdson : tenths of a mOhm                       *)
(*   inductor current / sat_current / max_current : hundredths of an A     *)
(*   margins and tolerances : percent (1.3 is 130, 4.0 is 400)             *)
(*   frequency : kHz;  time : seconds                                      *)
(* A score is kept as the integer score * den, den being a denominator     *)
(* common to all candidates of one call (it depends on the call's          *)
(* arguments only), so that comparing the integers compares the scores.    *)
(***************************************************************************)
EXTENDS Integers, Sequences, FiniteSets, TLC

VARIABLES
    MOSFET_LIBRARY,           \* component_data.MOSFET_LIBRARY
    CAPACITOR_LIBRARY,        \* component_data.CAPACITOR_LIBRARY
    INPUT_CAPACITOR_LIBRARY,  \* component_data.INPUT_CAPACITOR_LIBRARY
    INDUCTOR_LIBRARY,         \* component_data.INDUCTOR_LIBRARY
    imported,                 \* the *_LIBRARY names bound in component_suggestions
    csv,                      \* the catalog files on disk, per family
    reload,                   \* where a reload_component_data call stands, and a reader
    heuristics_dir,           \* assets/design_heuristics/<family>, per family
    call,                     \* the last suggest_* call and what it produced
    pinned,                   \* an earlier call kept for comparison
    WEB_SCRAPING_AVAILABLE,   \* whether requests and bs4 could be imported
    scraper,                  \* the WebComponentScraper of each caller and its search
    fired                     \* the last two HTTP requests of the process

vars == <<MOSFET_LIBRARY, CAPACITOR_LIBRARY, INPUT_CAPACITOR_LIBRARY,
          INDUCTOR_LIBRARY, imported, csv, reload, heuristics_dir, call, pinned,
          WEB_SCRAPING_AVAILABLE, scraper, fired>>

catalogVars == <<MOSFET_LIBRARY, CAPACITOR_LIBRARY, INPUT_CAPACITOR_LIBRARY,
                 INDUCTOR_LIBRARY, imported, csv, reload>>

webVars == <<WEB_SCRAPING_AVAILABLE, scraper, fired>>

----------------------------------------------------------------------------
(* Arithmetic helpers *)

Abs(x) == IF x < 0 THEN -x ELSE x

MinOf(S) == CHOOSE x \in S : \A y \in S : x <= y

RECURSIVE Gcd(_, _)
Gcd(a, b) == IF b = 0 THEN a ELSE Gcd(b, a % b)

Lcm(a, b) == (a \div Gcd(a, b)) * b

\* list[:n]
Take(s, n) == SubSeq(s, 1, IF Len(s) < n THEN Len(s) ELSE n)

\* tags of heuristics_applied: the text and the numbers formatted into it
Tag(text, arg) == [text |-> text, arg |-> arg]

----------------------------------------------------------------------------
(* lib/component_data.py : part records and the built-in fallback lists *)

Families == {"mosfet", "capacitor", "input_capacitor", "inductor"}

MOSFET(name, manufacturer, vds, id, rdson, qg, package, efficiency_range) ==
    [name |-> name, manufacturer |-> manufacturer, vds |-> vds, id |-> id,
     rdson |-> rdson, qg |-> qg, package |-> package,
     efficiency_range |-> efficiency_range]

\* tokens of a text cell: a number, or any other piece of text
Num(n) == [kind |-> "num", val |-> n, txt |-> ""]

Sym(t) == [kind |-> "sym", val |-> 0, txt |-> t]

\* type is the set of words of the type text, esr the tokens of the esr text,
\* temp_range the two numbers of the temperature text
Capacitor(part_number, manufacturer, capacitance, voltage, type, esr, temp_range) ==
    [part_number |-> part_number, manufacturer |-> manufacturer,
     capacitance |-> capacitance, voltage |-> voltage, type |-> type,
     esr |-> esr, temp_range |-> temp_range]

InputCapacitor(part_number, manufacturer, category, capacitance, voltage, esr, esl, ripple_rating, availability) ==
    [part_number |-> part_number, manufacturer |-> manufacturer,
     category |-> category, capacitance |-> capacitance, voltage |-> voltage,
     esr |-> esr, esl |-> esl, ripple_rating |-> ripple_rating,
     availability |-> availability]

Inductor(part_number, manufacturer, inductance, current, dcr, sat_current, package) ==
    [part_number |-> part_number, manufacturer |-> manufacturer,
     inductance |-> inductance, current |-> current, dcr |-> dcr,
     sat_current |-> sat_current, package |-> package]

get_fallback_mosfets ==
    << MOSFET("BSC016N06NS", "infineon", 60, 150, 16, 44, "SuperSO8", <<96, 98>>),
       MOSFET("CSD19505KCS", "texas instruments", 60, 80, 25, 37, "TO-220", <<95, 97>>),
       MOSFET("IPB017N10N5", "infineon", 100, 120, 17, 70, "D2PAK", <<96, 97>>) >>

get_fallback_capacitors ==
    << Capacitor("C3216X7R1H106K160AC", "tdk", 10, 50, {"MLCC", "X7R"},
                 <<Sym("~"), Num(2), Sym("-"), Num(5)>>, <<-55, 125>>),
       Capacitor("C3225X7R1E226M250AB", "tdk", 22, 25, {"MLCC", "X7R"},
                 <<Sym("~"), Num(2), Sym("-"), Num(5)>>, <<-55, 125>>) >>

get_fallback_inductors ==
    << Inductor("SER2915H-472KL", "coilcraft", 4700, 73, 1850, 95, "SER2915"),
       Inductor("SER2915H-103KL", "coilcraft", 10000, 48, 4200, 62, "SER2915") >>

----------------------------------------------------------------------------
(* The catalog files: what assets/component_data/<family>.csv holds when it *)
(* exists and parses.  Sample tables; the rows sit on and around the        *)
(* boundaries of the hard filters for the arguments drawn below.            *)

MosfetRows ==
    << MOSFET("M1", "infineon",          30,  13, 16, 44, "SO-8",   <<96, 98>>),
       MOSFET("M2", "texas instruments", 60,  65, 25, 37, "TO-220", <<95, 97>>),
       MOSFET("M3", "infineon",         100, 120, 17, 70, "D2PAK",  <<96, 97>>),
       MOSFET("M4", "vishay",            29,  80, 30,  0, "SO-8",   <<90, 95>>),
       MOSFET("M5", "vishay",            60,  12, 20, 25, "SO-8",   <<92, 96>>),
       MOSFET("M6", "onsemi",            80, 100, 20, 25, "TO-220", <<94, 96>>),
       MOSFET("M7", "onsemi",            40,  40, 16, 44, "SO-8",   <<93, 95>>),
       MOSFET("M8", "rohm",              40,  40, 16, 44, "SO-8",   <<93, 95>>) >>

CapacitorRows ==
    << Capacitor("C1", "tdk",       10, 12, {"MLCC", "X7R"},  <<Sym("~"), Num(2), Sym("-"), Num(5)>>, <<-55, 125>>),
       Capacitor("C2", "murata",     5,  6, {"MLCC", "X5R"},  <<Num(3)>>,         <<-55, 85>>),
       Capacitor("C3", "panasonic", 20, 25, {"Polymer"},      <<Sym("low")>>,       <<-55, 105>>),
       Capacitor("C4", "nichicon",  21, 50, {"Electrolytic"}, <<Num(60), Sym("-"), Num(80)>>, <<-40, 105>>),
       Capacitor("C5", "tdk",        4, 50, {"MLCC", "X7R"},  <<Sym("~"), Num(2), Sym("-"), Num(5)>>, <<-55, 125>>),
       Capacitor("C6", "kemet",     10, 11, {"Tantalum"},     <<Sym("n/a")>>,       <<-55, 125>>),
       Capacitor("C7", "murata",    10, 16, {"MLCC", "X7R"},  <<Num(3)>>,         <<-55, 125>>),
       Capacitor("C8", "murata",    10, 16, {"MLCC", "X7R"},  <<Num(3)>>,         <<-55, 125>>) >>

InputCapacitorRows ==
    << InputCapacitor("I1", "tdk",       "MLCC",         10, 18,   3, 1,  0, "In Stock"),
       InputCapacitor("I2", "panasonic", "Polymer",      30, 24,  15, 5, 40, "In Stock"),
       InputCapacitor("I3", "nichicon",  "Electrolytic", 31, 50, 120, 9, 10, "Backorder"),
       InputCapacitor("I4", "kemet",     "Film",          3, 50,   0, 0,  0, "In Stock"),
       InputCapacitor("I5", "tdk",       "MLCC",         10, 17,   3, 1,  0, "In Stock"),
       InputCapacitor("I6", "murata",    "MLCC",         10, 25,   0, 6,  0, "Lead time"),
       InputCapacitor("I7", "murata",    "MLCC",         10, 36,   8, 2,  0, "In Stock"),
       InputCapacitor("I8", "murata",    "MLCC",         10, 36,   8, 2,  0, "In Stock") >>

InductorRows ==
    << Inductor("L1", "coilcraft", 10, 320,  30, 450, "SER1360"),
       Inductor("L2", "coilcraft", 10, 360,  30, 360, "SO1206"),
       Inductor("L3", "bourns",    10, 400,  45, 359, "SRR1260"),
       Inductor("L4", "wurth",     50, 500,  20, 600, "WE-PD"),
       Inductor("L5", "wurth",     51, 500,  20, 600, "WE-PD"),
       Inductor("L6", "bourns",    22, 800, 150, 900, "SO2220"),
       Inductor("L7", "sumida",    10, 450,  28, 500, "CDRH"),
       Inductor("L8", "sumida",    10, 450,  28, 500, "CDRH") >>

\* an inductor file with one row: 470 uH, 2.5 A rated, 3.0 A saturation,
\* 280 mOhm, the file state "example"
ExampleInductorRows ==
    << Inductor("EX470", "coilcraft", 470, 250, 280, 300, "SER1360") >>

CsvStates == {"missing", "corrupt", "ok"}

\* float('nan'), the value pandas hands over for an empty cell and float()
\* passes on; it stands outside the numbers a cell can hold
NaN == -1

\* an empty cell of a numeric column
EmptyCell == Sym("")

\* float(row[column])
Float(cell) == IF cell.kind = "num" THEN cell.val ELSE NaN

\* float(row[column]) if pd.notna(row[column]) else 0.0
FloatOrZero(cell) == IF cell.kind = "num" THEN cell.val ELSE 0

\* catalog files with an empty numeric cell, the file state "gaps": the
\* numeric cells of their rows as read_csv holds them
MosfetGapCells ==
    << [name |-> "G1", manufacturer |-> "infineon", vds |-> Num(60), id |-> Num(30), rdson |-> Num(20), qg |-> EmptyCell, package |-> "SO-8", efficiency_range |-> <<94, 96>>] >>

InputCapacitorGapCells ==
    << [part_number |-> "G2", manufacturer |-> "tdk", category |-> "MLCC", capacitance |-> Num(10), voltage |-> Num(25), esr |-> EmptyCell, esl |-> EmptyCell, ripple_rating |-> EmptyCell, availability |-> "In Stock"],
       [part_number |-> "G3", manufacturer |-> "tdk", category |-> "MLCC", capacitance |-> Num(10), voltage |-> EmptyCell, esr |-> Num(3), esl |-> Num(1), ripple_rating |-> Num(2), availability |-> "In Stock"] >>

InductorGapCells ==
    << [part_number |-> "G4", manufacturer |-> "bourns", inductance |-> Num(10), current |-> Num(400), dcr |-> EmptyCell, sat_current |-> Num(500), package |-> "SRR1260"] >>

\* os.path.exists over possible_paths, pd.read_csv and the row loop; any
\* exception lands in the except branch
load_mosfets_from_csv(file) ==
    IF file = "missing" THEN get_fallback_mosfets
    ELSE IF file = "corrupt" THEN get_fallback_mosfets
    ELSE IF file = "gaps"
    THEN [i \in 1..Len(MosfetGapCells) |->
             LET row == MosfetGapCells[i]
             IN  MOSFET(row.name, row.manufacturer, Float(row.vds), Float(row.id), Float(row.rdson), Float(row.qg), row.package, row.efficiency_range)]
    ELSE MosfetRows

load_capacitors_from_csv(file) ==
    IF file = "missing" THEN get_fallback_capacitors
    ELSE IF file = "corrupt" THEN get_fallback_capacitors
    ELSE CapacitorRows

load_input_capacitors_from_csv(file) ==
    IF file = "missing" THEN << >>
    ELSE IF file = "corrupt" THEN << >>
    ELSE IF file = "gaps"
    THEN [i \in 1..Len(InputCapacitorGapCells) |->
             LET row == InputCapacitorGapCells[i]
             IN  InputCapacitor(row.part_number, row.manufacturer, row.category, Float(row.capacitance), Float(row.voltage), FloatOrZero(row.esr), FloatOrZero(row.esl), FloatOrZero(row.ripple_rating), row.availability)]
    ELSE InputCapacitorRows

load_inductors_from_csv(file) ==
    IF file = "missing" THEN get_fallback_inductors
    ELSE IF file = "corrupt" THEN get_fallback_inductors
    ELSE IF file = "example" THEN ExampleInductorRows
    ELSE IF file = "gaps"
    THEN [i \in 1..Len(InductorGapCells) |->
             LET row == InductorGapCells[i]
             IN  Inductor(row.part_number, row.manufacturer, Float(row.inductance), Float(row.current), Float(row.dcr), Float(row.sat_current), row.package)]
    ELSE InductorRows

----------------------------------------------------------------------------
(* lib/document_analyzer.py : the heuristics analyzer                      *)
(*                                                                         *)
(* A line of a document is kept as what the code looks at: kws, the        *)
(* keywords of the analyzer and of the engine that occur in the lowercased *)
(* line as substrings; nums, the digit runs re.findall(r'\d+') returns;    *)
(* mfrs, the manufacturer names occurring in the lowercased line; long,    *)
(* len(line.strip()) > 20.                                                 *)

Line(kws, nums, mfrs, long) == [kws |-> kws, nums |-> nums, mfrs |-> mfrs, long |-> long]

\* "Use 30% current margin for derating"
LineCurrentMargin30 == Line({"current", "derating", "margin", "rating"}, <<30>>, {}, TRUE)
\* "Apply 50% voltage derating on VDS"
LineVoltageDerating50 == Line({"derating", "rating", "vds", "voltage"}, <<50>>, {}, TRUE)
\* "Use 40% derating on the drain"
LineDerating40 == Line({"derating", "rating"}, <<40>>, {}, TRUE)
\* "Keep drain current below 25% of the limit"
LineCurrent25 == Line({"current"}, <<25>>, {}, TRUE)
\* "Use 5% margin"
LineMargin5 == Line({"margin"}, <<5>>, {}, FALSE)
\* "Infineon parts have a proven track record"
LineInfineon == Line({}, << >>, {"infineon"}, TRUE)
\* "Prefer onsemi or Infineon on new boards"
LineOnsemiInfineon == Line({}, << >>, {"infineon", "onsemi"}, TRUE)
\* "Murata is the preferred vendor here"
LineMurata == Line({}, << >>, {"murata"}, TRUE)
\* "Capacitance tolerance 50% is acceptable"
LineCapTolerance50 == Line({"capacitance", "tolerance"}, <<50>>, {}, TRUE)
\* "Allow a capacitance range of 300% around nominal"
LineCapRange300 == Line({"capacitance", "range"}, <<300>>, {}, TRUE)
\* "Inductance tolerance of 20% is acceptable"
LineIndTolerance20 == Line({"inductance", "tolerance"}, <<20>>, {}, TRUE)
\* "Ferrite core from Coilcraft preferred"
LineFerriteCoilcraft == Line({"core", "ferrite"}, << >>, {"coilcraft"}, TRUE)

\* a .docx file of a heuristics directory: its name and the lines
\* read_docx_content returns (none when the document cannot be read)
Doc(name, lines) == [name |-> name, lines |-> lines]

\* a heuristics directory: broken when listing it raises, else its .docx files
\* in os.listdir order
Dir(broken, files) == [broken |-> broken, files |-> files]

MosfetChain ==
    << [bucket |-> "voltage_derating_guidelines",
        keywords |-> {"voltage", "vds", "derating", "margin", "breakdown"}],
       [bucket |-> "current_derating_guidelines",
        keywords |-> {"current", "id", "ampere", "amp", "derating"}],
       [bucket |-> "rdson_optimization",
        keywords |-> {"rdson", "rds(on)", "resistance", "efficiency", "loss"}],
       [bucket |-> "gate_charge_considerations",
        keywords |-> {"gate", "qg", "qgs", "qgd", "charge", "driver"}],
       [bucket |-> "thermal_guidelines",
        keywords |-> {"thermal", "temperature", "heat", "cooling", "junction"}],
       [bucket |-> "package_selection",
        keywords |-> {"package", "so-8", "to-220", "d2pak", "surface mount"}],
       [bucket |-> "efficiency_optimization",
        keywords |-> {"efficiency", "loss", "switching", "conduction"}],
       [bucket |-> "application_specific",
        keywords |-> {"buck", "boost", "converter", "pfc", "application"}] >>

CapacitorChain ==
    << [bucket |-> "voltage_derating_guidelines",
        keywords |-> {"voltage", "derating", "margin", "breakdown", "rating"}],
       [bucket |-> "esr_optimization",
        keywords |-> {"esr", "resistance", "impedance", "loss"}],
       [bucket |-> "ripple_current_guidelines",
        keywords |-> {"ripple", "current", "rms", "heating"}],
       [bucket |-> "temperature_considerations",
        keywords |-> {"temperature", "temp", "thermal", "coefficient"}],
       [bucket |-> "type_selection_logic",
        keywords |-> {"mlcc", "ceramic", "electrolytic", "polymer", "tantalum"}],
       [bucket |-> "capacitance_tolerance",
        keywords |-> {"capacitance", "tolerance", "variation", "mu-f", "uf"}],
       [bucket |-> "frequency_response",
        keywords |-> {"frequency", "freq", "khz", "mhz", "resonant"}],
       [bucket |-> "application_specific",
        keywords |-> {"buck", "boost", "converter", "pfc", "filter", "decoupling"}] >>

InductorChain ==
    << [bucket |-> "current_rating_guidelines",
        keywords |-> {"current", "ampere", "amp", "rating", "isat", "saturation"}],
       [bucket |-> "inductance_selection",
        keywords |-> {"inductance", "henry", "mu-h", "uh", "ripple", "l="}],
       [bucket |-> "core_material_recommendations",
        keywords |-> {"core", "ferrite", "powder", "material", "iron"}],
       [bucket |-> "frequency_considerations",
        keywords |-> {"frequency", "khz", "mhz", "switching", "freq"}],
       [bucket |-> "thermal_guidelines",
        keywords |-> {"thermal", "temperature", "heat", "cooling", "temp"}],
       [bucket |-> "application_specific",
        keywords |-> {"buck", "boost", "converter", "pfc", "application"}] >>

\* the if / elif chain over one line: the first bucket one of whose keywords
\* occurs in the line, else general_guidelines for a substantial line
Classify(chain, line) ==
    LET hits == {i \in 1..Len(chain) : chain[i].keywords \cap line.kws # {}}
    IN  IF hits # {} THEN chain[MinOf(hits)].bucket
        ELSE IF line.long THEN "general_guidelines"
        ELSE "dropped"

\* criteria[bucket] of one document; criteria.get(bucket, []) for the buckets
\* the engine asks for
Bucket(chain, lines, bucket) == SelectSeq(lines, LAMBDA l : Classify(chain, l) = bucket)

analyze_mosfet_content(lines) ==
    [voltage_derating_guidelines |-> Bucket(MosfetChain, lines, "voltage_derating_guidelines"),
     current_derating_guidelines |-> Bucket(MosfetChain, lines, "current_derating_guidelines"),
     general_guidelines |-> Bucket(MosfetChain, lines, "general_guidelines")]

analyze_capacitor_content(lines) ==
    [voltage_derating_guidelines |-> Bucket(CapacitorChain, lines, "voltage_derating_guidelines"),
     capacitance_tolerance |-> Bucket(CapacitorChain, lines, "capacitance_tolerance"),
     general_guidelines |-> Bucket(CapacitorChain, lines, "general_guidelines")]

analyze_inductor_content(lines) ==
    [current_rating_guidelines |-> Bucket(InductorChain, lines, "current_rating_guidelines"),
     inductance_selection |-> Bucket(InductorChain, lines, "inductance_selection"),
     core_material_recommendations |-> Bucket(InductorChain, lines, "core_material_recommendations")]

\* analysis_results of a directory that can be listed: selection_criteria is
\* kept as the sequence of its values, in insertion order
analyze_mosfet_heuristics(dir) ==
    [documents_found |-> [i \in 1..Len(dir.files) |-> dir.files[i].name],
     selection_criteria |-> [i \in 1..Len(dir.files) |-> analyze_mosfet_content(dir.files[i].lines)],
     updated_algorithm |-> dir.files # << >>]

analyze_capacitor_heuristics(dir) ==
    [documents_found |-> [i \in 1..Len(dir.files) |-> dir.files[i].name],
     selection_criteria |-> [i \in 1..Len(dir.files) |-> analyze_capacitor_content(dir.files[i].lines)],
     updated_algorithm |-> dir.files # << >>]

analyze_inductor_heuristics(dir) ==
    [documents_found |-> [i \in 1..Len(dir.files) |-> dir.files[i].name],
     selection_criteria |-> [i \in 1..Len(dir.files) |-> analyze_inductor_content(dir.files[i].lines)],
     updated_algorithm |-> dir.files # << >>]

----------------------------------------------------------------------------
(* lib/component_suggestions.py : what the four suggest_* have in common *)

RECURSIVE SumSeq(_)
SumSeq(s) == IF s = << >> THEN 0 ELSE Head(s) + SumSeq(Tail(s))

RECURSIVE Concat(_)
Concat(ss) == IF ss = << >> THEN << >> ELSE Head(ss) \o Concat(Tail(ss))

\* one scoring rule that fired: what it adds to score * den, and its tags
Rule(delta, tags) == [delta |-> delta, tags |-> tags]

NoRule == Rule(0, << >>)

ComponentSuggestion(component, pos, reason, score, heuristics_applied) ==
    [component |-> component, pos |-> pos, reason |-> reason, score |-> score,
     heuristics_applied |-> heuristics_applied]

\* for guideline in guidelines: the number of the first guideline that has one
\* of the words, has a number, and whose first number is in lo..hi (the one
\* the loop breaks on); -1 when the loop ends without a break
Override(guidelines, words, lo, hi) ==
    LET hits == {i \in 1..Len(guidelines) :
                    /\ guidelines[i].kws \cap words # {}
                    /\ guidelines[i].nums # << >>
                    /\ lo <= guidelines[i].nums[1]
                    /\ guidelines[i].nums[1] <= hi}
    IN  IF hits = {} THEN -1 ELSE guidelines[MinOf(hits)].nums[1]

\* the manufacturer loop: +10 and a tag for every document one of whose
\* guidelines of the bucket names the manufacturer (break leaves the inner loop)
ManufacturerRule(criteria, bucket, manufacturer, den) ==
    LET docs == {i \in 1..Len(criteria) :
                    \E g \in 1..Len(criteria[i][bucket]) :
                        manufacturer \in criteria[i][bucket][g].mfrs}
    IN  Rule(10 * den * Cardinality(docs),
             [k \in 1..Cardinality(docs) |->
                 Tag("Recommended manufacturer from heuristics", << >>)])

\* a sort whose order of equal scores depends on what the process did before:
\* catalog order in a first call, reversed once a call has been made
SortByScoreHistory(suggestions) ==
    LET n == Len(suggestions)
        Before(i, j) == \/ suggestions[i].score > suggestions[j].score
                        \/ /\ suggestions[i].score = suggestions[j].score
                           /\ IF call.op = "none" THEN i < j ELSE i > j
        Rank(i) == 1 + Cardinality({j \in 1..n : Before(j, i)})
    IN  [k \in 1..n |-> suggestions[CHOOSE i \in 1..n : Rank(i) = k]]

\* a descending sort that is not stable: an ascending sort reversed afterwards,
\* which puts the later of two equal scores first
SortByScoreReversed(suggestions) ==
    LET n == Len(suggestions)
        Before(i, j) == \/ suggestions[i].score > suggestions[j].score
                        \/ suggestions[i].score = suggestions[j].score /\ i > j
        Rank(i) == 1 + Cardinality({j \in 1..n : Before(j, i)})
    IN  [k \in 1..n |-> suggestions[CHOOSE i \in 1..n : Rank(i) = k]]

\* suggestions.sort(key=lambda x: x.score, reverse=True): list.sort is stable,
\* also with reverse=True, so equal scores keep the order they were appended in
SortByScore(suggestions) ==
    LET n == Len(suggestions)
        Before(i, j) == \/ suggestions[i].score > suggestions[j].score
                        \/ suggestions[i].score = suggestions[j].score /\ i < j
        Rank(i) == 1 + Cardinality({j \in 1..n : Before(j, i)})
    IN  [k \in 1..n |-> suggestions[CHOOSE i \in 1..n : Rank(i) = k]]

\* the loop over suggestions[:3]: the top suggestion gets the provenance tag
\* whenever applied_heuristics is not empty
AddGlobalSummary(sorted, applied_heuristics, documents_found) ==
    IF sorted = << >> \/ applied_heuristics = << >> THEN sorted
    ELSE [sorted EXCEPT ![1].heuristics_applied =
              @ \o <<Tag("Analysis from", documents_found)>>]

\* what a call leaves behind: how it ended, the catalog positions that got
\* past the hard filter, the list suggestions after the sort and the tag loop,
\* and the list it returned
Outcome(op, args, margins, status, cands, den, suggestions, result) ==
    [op |-> op, args |-> args, margins |-> margins, status |-> status,
     cands |-> cands, den |-> den, suggestions |-> suggestions, result |-> result]

\* the safety margins and the tolerance a call filtered with, in percent
\* (0 for the one the family does not have)
Margins(voltage_margin, current_margin, tolerance) ==
    [voltage_margin |-> voltage_margin, current_margin |-> current_margin,
     tolerance |-> tolerance]

Args(required, max_voltage, max_current, ripple_current, frequency) ==
    [required |-> required, max_voltage |-> max_voltage,
     max_current |-> max_current, ripple_current |-> ripple_current,
     frequency |-> frequency]

\* heuristics_analysis and applied_heuristics after the try / except around
\* the analyzer; failed stands for heuristics_analysis = None
Heuristics(failed, analysis) ==
    [failed |-> failed,
     analysis |-> analysis,
     applied |-> IF failed
                 THEN <<Tag("Using default algorithm (heuristics error)", << >>)>>
                 ELSE IF analysis.updated_algorithm
                 THEN <<Tag("Using updated algorithm from document(s)",
                            <<Len(analysis.documents_found)>>)>>
                 ELSE << >>]

NoAnalysis == [documents_found |-> << >>, selection_criteria |-> << >>,
               updated_algorithm |-> FALSE]

\* the catalog positions a predicate keeps, in catalog order
Positions(lib, Keep(_)) ==
    SelectSeq([i \in 1..Len(lib) |-> i], LAMBDA i : Keep(lib[i]))

----------------------------------------------------------------------------
(* suggest_mosfets, local catalog *)

\* the margin loops over selection_criteria.values(); margins in percent
RECURSIVE MosfetMargins(_, _)
MosfetMargins(criteria, acc) ==
    IF criteria = << >> THEN acc
    ELSE LET c  == Head(criteria)
             pv == Override(c.voltage_derating_guidelines, {"margin", "derating"}, 20, 200)
             pc == Override(c.current_derating_guidelines, {"margin", "derating"}, 10, 100)
         IN  MosfetMargins(Tail(criteria),
                 [voltage_margin |-> IF pv # -1 THEN 100 + pv ELSE acc.voltage_margin,
                  current_margin |-> IF pc # -1 THEN 100 + pc ELSE acc.current_margin,
                  applied |-> acc.applied
                      \o (IF pv # -1 THEN <<Tag("Applied voltage margin from heuristics", <<pv>>)>>
                          ELSE << >>)
                      \o (IF pc # -1 THEN <<Tag("Applied current margin from heuristics", <<pc>>)>>
                          ELSE << >>)])

\* neither continue of the filter is taken
MosfetPasses(mosfet, a, mg) ==
    /\ ~(mosfet.vds * 100 < a.max_voltage * mg.voltage_margin)
    /\ ~(mosfet.id * 100 < a.max_current * mg.current_margin)

\* the scoring rules of one MOSFET, in the order of the code; rv and rc are
\* the denominators of voltage_ratio and current_ratio
MosfetRules(mosfet, a, rv, rc, den, h) ==
    << Rule(-(mosfet.rdson * (IF a.frequency > 100 THEN 3 ELSE 2) * (den \div 10)),
            IF a.frequency > 100
            THEN <<Tag("High-frequency RDS(on) penalty applied", << >>)>> ELSE << >>),
       IF mosfet.vds * 100 > 2 * rv
       THEN Rule(-((mosfet.vds * 100 - 2 * rv) * 10 * (den \div rv)), << >>)
       ELSE IF 12 * rv <= mosfet.vds * 1000 /\ mosfet.vds * 1000 <= 18 * rv
       THEN Rule(5 * den, <<Tag("Optimal voltage utilization", << >>)>>)
       ELSE NoRule,
       IF mosfet.id * 100 > 2 * rc
       THEN Rule(-((mosfet.id * 100 - 2 * rc) * 5 * (den \div rc)), << >>)
       ELSE IF 12 * rc <= mosfet.id * 1000 /\ mosfet.id * 1000 <= 18 * rc
       THEN Rule(5 * den, <<Tag("Optimal current utilization", << >>)>>)
       ELSE NoRule,
       IF mosfet.qg > 0 /\ a.frequency > 50
       THEN IF mosfet.qg < 30
            THEN Rule(10 * den, <<Tag("Low gate charge for high frequency", << >>)>>)
            ELSE IF mosfet.qg > 60
            THEN Rule(-(5 * den), <<Tag("High gate charge penalty", << >>)>>)
            ELSE NoRule
       ELSE NoRule,
       ManufacturerRule(h.analysis.selection_criteria, "general_guidelines",
                        mosfet.manufacturer, den),
       IF mosfet.efficiency_range[2] \in {97, 98}
       THEN Rule(5 * den, <<Tag("High efficiency rating", << >>)>>)
       ELSE NoRule >>

suggest_mosfets(lib, dir, a) ==
    LET h  == Heuristics(dir.broken,
                         IF dir.broken THEN NoAnalysis ELSE analyze_mosfet_heuristics(dir))
        mg == MosfetMargins(h.analysis.selection_criteria,
                            [voltage_margin |-> 150, current_margin |-> 130,
                             applied |-> h.applied])
        rv == a.max_voltage * mg.voltage_margin
        rc == a.max_current * mg.current_margin
        cands == Positions(lib, LAMBDA m : MosfetPasses(m, a, mg))
        den == Lcm(Lcm(10, rv), rc)
        Suggestion(i) ==
            LET rules == MosfetRules(lib[i], a, rv, rc, den, h)
                component_heuristics ==
                    mg.applied \o Concat([k \in 1..Len(rules) |-> rules[k].tags])
            IN  ComponentSuggestion(lib[i], i,
                    [values |-> <<lib[i].vds, lib[i].id, lib[i].rdson>>,
                     ratios |-> <<lib[i].vds * 100, rv, lib[i].id * 100, rc>>,
                     applied |-> Take(component_heuristics, 2)],
                    100 * den + SumSeq([k \in 1..Len(rules) |-> rules[k].delta]),
                    component_heuristics)
        sorted == SortByScore([k \in 1..Len(cands) |-> Suggestion(cands[k])])
        suggestions == AddGlobalSummary(sorted, mg.applied, h.analysis.documents_found)
        used == Margins(mg.voltage_margin, mg.current_margin, 0)
    IN  IF cands # << >> /\ (rv = 0 \/ rc = 0)
        THEN Outcome("suggest_mosfets", a, used, "ZeroDivisionError", <<Head(cands)>>, 0, << >>, << >>)
        ELSE IF cands # << >> /\ mg.applied # << >> /\ h.failed
        THEN Outcome("suggest_mosfets", a, used, "AttributeError", cands, 0, << >>, << >>)
        ELSE Outcome("suggest_mosfets", a, used, "returned", cands,
                     IF cands = << >> THEN 1 ELSE den, suggestions, Take(suggestions, 5))

----------------------------------------------------------------------------
(* suggest_capacitors, local catalog *)

\* float(capacitor.esr.replace('~', '').replace('low', '5').split('-')[0]):
\* the number, or -1 when float() raises (the bare except skips the ESR rule)
EsrVal(esr) ==
    LET noTilde == SelectSeq(esr, LAMBDA t : ~(t.kind = "sym" /\ t.txt = "~"))
        lowIs5  == [i \in 1..Len(noTilde) |->
                       IF noTilde[i].kind = "sym" /\ noTilde[i].txt = "low"
                       THEN Num(5) ELSE noTilde[i]]
        dashes  == {i \in 1..Len(lowIs5) : lowIs5[i].kind = "sym" /\ lowIs5[i].txt = "-"}
        first   == IF dashes = {} THEN lowIs5 ELSE SubSeq(lowIs5, 1, MinOf(dashes) - 1)
    IN  IF Len(first) = 1 /\ first[1].kind = "num" THEN first[1].val ELSE -1

\* tolerance in percent: int(numbers[0]) / 100 between 0.5 and 5.0
RECURSIVE CapacitorMargins(_, _)
CapacitorMargins(criteria, acc) ==
    IF criteria = << >> THEN acc
    ELSE LET c  == Head(criteria)
             pv == Override(c.voltage_derating_guidelines, {"margin", "derating"}, 10, 100)
             pt == Override(c.capacitance_tolerance, {"tolerance", "range"}, 50, 500)
         IN  CapacitorMargins(Tail(criteria),
                 [voltage_margin |-> IF pv # -1 THEN 100 + pv ELSE acc.voltage_margin,
                  capacitance_tolerance |-> IF pt # -1 THEN pt ELSE acc.capacitance_tolerance,
                  applied |-> acc.applied
                      \o (IF pv # -1 THEN <<Tag("Applied voltage margin from heuristics", <<pv>>)>>
                          ELSE << >>)
                      \o (IF pt # -1 THEN <<Tag("Applied capacitance tolerance from heuristics", <<pt>>)>>
                          ELSE << >>)])

\* the voltage check, the first continue of both capacitor filters
CapVoltageOk(capacitor, a, mg) ==
    ~(capacitor.voltage * 100 < a.max_voltage * mg.voltage_margin)

\* an additive band instead: capacitance within tolerance uF of the required one
CapRatioOkAdditive(capacitor, a, mg) ==
    ~(\/ capacitor.capacitance * 100 < a.required * 100 - mg.capacitance_tolerance
      \/ capacitor.capacitance * 100 > a.required * 100 + mg.capacitance_tolerance)

\* cap_ratio = capacitance / required against 1/tolerance and tolerance, for a
\* required capacitance above zero
CapRatioOk(capacitor, a, mg) ==
    ~(\/ capacitor.capacitance * mg.capacitance_tolerance < 100 * a.required
      \/ capacitor.capacitance * 100 > mg.capacitance_tolerance * a.required)

CapacitorRules(capacitor, a, rv, den, h) ==
    LET esr_val == EsrVal(capacitor.esr)
    IN
    << Rule(-(Abs(capacitor.capacitance - a.required) * (den \div 10)), << >>),
       IF esr_val = -1 THEN NoRule
       ELSE IF a.frequency > 100 /\ esr_val < 10
       THEN Rule(10 * den - esr_val * (den \div 2),
                 <<Tag("Low ESR for high frequency", << >>)>>)
       ELSE IF a.frequency > 100 /\ esr_val > 50
       THEN Rule(-(esr_val * den), <<Tag("High ESR penalty for high frequency", << >>)>>)
       ELSE Rule(-(esr_val * (den \div 2)), << >>),
       IF capacitor.voltage * 100 > 3 * rv
       THEN Rule(-((capacitor.voltage * 100 - 3 * rv) * 10 * (den \div rv)), << >>)
       ELSE IF 12 * rv <= capacitor.voltage * 1000 /\ capacitor.voltage * 1000 <= 20 * rv
       THEN Rule(5 * den, <<Tag("Optimal voltage utilization", << >>)>>)
       ELSE NoRule,
       IF a.frequency > 100
       THEN IF "MLCC" \in capacitor.type
            THEN Rule(15 * den, <<Tag("MLCC preferred for high frequency", << >>)>>)
            ELSE IF "Polymer" \in capacitor.type
            THEN Rule(10 * den, <<Tag("Polymer suitable for high frequency", << >>)>>)
            ELSE NoRule
       ELSE IF "Electrolytic" \in capacitor.type /\ a.required > 100
            THEN Rule(5 * den, <<Tag("Electrolytic suitable for bulk capacitance", << >>)>>)
            ELSE NoRule,
       IF capacitor.temp_range[1] = -55 /\ capacitor.temp_range[2] = 125
       THEN Rule(5 * den, <<Tag("Wide temperature range", << >>)>>)
       ELSE NoRule,
       ManufacturerRule(h.analysis.selection_criteria, "general_guidelines",
                        capacitor.manufacturer, den) >>

suggest_capacitors(lib, dir, a) ==
    LET h  == Heuristics(dir.broken,
                         IF dir.broken THEN NoAnalysis ELSE analyze_capacitor_heuristics(dir))
        mg == CapacitorMargins(h.analysis.selection_criteria,
                               [voltage_margin |-> 120, capacitance_tolerance |-> 200,
                                applied |-> h.applied])
        rv == a.max_voltage * mg.voltage_margin
        divided == Positions(lib, LAMBDA c : CapVoltageOk(c, a, mg))
        cands == Positions(lib, LAMBDA c : CapVoltageOk(c, a, mg) /\ CapRatioOk(c, a, mg))
        den == Lcm(10, rv)
        Suggestion(i) ==
            LET rules == CapacitorRules(lib[i], a, rv, den, h)
                component_heuristics ==
                    mg.applied \o Concat([k \in 1..Len(rules) |-> rules[k].tags])
            IN  ComponentSuggestion(lib[i], i,
                    [values |-> <<lib[i].capacitance, lib[i].voltage>>,
                     ratios |-> <<lib[i].voltage * 100, rv>>,
                     applied |-> Take(component_heuristics, 2)],
                    100 * den + SumSeq([k \in 1..Len(rules) |-> rules[k].delta]),
                    component_heuristics)
        sorted == SortByScore([k \in 1..Len(cands) |-> Suggestion(cands[k])])
        suggestions == AddGlobalSummary(sorted, mg.applied, h.analysis.documents_found)
        used == Margins(mg.voltage_margin, 0, mg.capacitance_tolerance)
    IN  IF divided # << >> /\ a.required = 0
        THEN Outcome("suggest_capacitors", a, used, "ZeroDivisionError", << >>, 0, << >>, << >>)
        ELSE IF cands # << >> /\ rv = 0
        THEN Outcome("suggest_capacitors", a, used, "ZeroDivisionError", <<Head(cands)>>, 0, << >>, << >>)
        ELSE IF cands # << >> /\ mg.applied # << >> /\ h.failed
        THEN Outcome("suggest_capacitors", a, used, "AttributeError", cands, 0, << >>, << >>)
        ELSE Outcome("suggest_capacitors", a, used, "returned", cands,
                     IF cands = << >> THEN 1 ELSE den, suggestions, Take(suggestions, 5))

----------------------------------------------------------------------------
(* suggest_input_capacitors, local catalog; ripple currents in tenths of A *)

\* scoring_adjustments['category_bonus'].get(category, 0)
category_bonus(category) ==
    IF category = "MLCC" THEN 10
    ELSE IF category = "Polymer" THEN 8
    ELSE IF category = "Film" THEN 6
    ELSE IF category = "Electrolytic" THEN 4
    ELSE 0

\* lib/input_capacitor_heuristics.py: score_adjustment and applied_heuristics,
\* as rules; max_voltage is above zero here
apply_input_capacitor_heuristics(capacitor, a, den) ==
    << Rule(category_bonus(capacitor.category) * den,
            IF category_bonus(capacitor.category) > 0
            THEN <<Tag("category", <<category_bonus(capacitor.category)>>)>> ELSE << >>),
       IF capacitor.voltage * 10 >= 20 * a.max_voltage
       THEN Rule(15 * den, <<Tag("Excellent voltage derating", << >>)>>)
       ELSE IF capacitor.voltage * 10 >= 15 * a.max_voltage
       THEN Rule(10 * den, <<Tag("Good voltage derating", << >>)>>)
       ELSE IF capacitor.voltage * 10 >= 12 * a.max_voltage
       THEN Rule(5 * den, <<Tag("Adequate voltage derating", << >>)>>)
       ELSE Rule(-(10 * den), <<Tag("Poor voltage derating", << >>)>>),
       IF capacitor.ripple_rating > 0
       THEN IF capacitor.ripple_rating >= a.ripple_current
            THEN Rule(10 * den, <<Tag("Adequate ripple rating", << >>)>>)
            ELSE Rule((10 \div 2) * den, <<Tag("Marginal ripple rating", << >>)>>)
       ELSE IF capacitor.esr > 0
       THEN IF capacitor.voltage * 1000 >= a.ripple_current * capacitor.esr
            THEN Rule(5 * den, <<Tag("Estimated adequate ripple capability", << >>)>>)
            ELSE Rule(0, <<Tag("May have insufficient ripple capability", << >>)>>)
       ELSE NoRule,
       IF a.frequency > 100
       THEN IF capacitor.category = "MLCC" /\ capacitor.esl < 5
            THEN Rule(8 * den, <<Tag("Low ESL excellent for high frequency", << >>)>>)
            ELSE IF capacitor.category \in {"Polymer", "Film"}
            THEN Rule(5 * den, <<Tag("Good high-frequency performance", << >>)>>)
            ELSE NoRule
       ELSE IF capacitor.category \in {"Electrolytic", "Polymer"}
            THEN Rule(5 * den, <<Tag("Good for lower frequency bulk capacitance", << >>)>>)
            ELSE NoRule,
       IF capacitor.esr > 0 /\ capacitor.esr < 10
       THEN Rule(5 * den, <<Tag("Low ESR for efficiency", << >>)>>)
       ELSE IF capacitor.esr > 100
       THEN Rule(-(3 * den), <<Tag("Higher ESR may impact efficiency", << >>)>>)
       ELSE NoRule >>

\* the adjustments suggest_input_capacitors makes itself
InputCapacitorRules(capacitor, a, den) ==
    << Rule(-(Abs(capacitor.capacitance - a.required) * 20 * (den \div a.required)), << >>),
       IF capacitor.voltage * 10 >= 20 * a.max_voltage THEN Rule(15 * den, << >>)
       ELSE IF capacitor.voltage * 10 >= 15 * a.max_voltage THEN Rule(10 * den, << >>)
       ELSE Rule(-(5 * den), << >>),
       IF capacitor.esr > 0 /\ capacitor.esr < 20
       THEN Rule(8 * den, <<Tag("Low ESR for efficiency", << >>)>>)
       ELSE IF capacitor.esr > 100 THEN Rule(-(5 * den), << >>)
       ELSE NoRule,
       \* 'stock' in capacitor.availability.lower()
       IF capacitor.availability \in {"In Stock", "Out of stock"}
       THEN Rule(5 * den, <<Tag("In stock", << >>)>>)
       ELSE NoRule >>

suggest_input_capacitors(lib, a) ==
    LET applied_heuristics == <<Tag("Using input capacitor design heuristics", << >>)>>
        mg == [voltage_margin |-> 150, capacitance_tolerance |-> 300]
        divided == Positions(lib, LAMBDA c : CapVoltageOk(c, a, mg))
        cands == Positions(lib, LAMBDA c : CapVoltageOk(c, a, mg) /\ CapRatioOk(c, a, mg))
        den == a.required
        Suggestion(i) ==
            LET rules == apply_input_capacitor_heuristics(lib[i], a, den)
                             \o InputCapacitorRules(lib[i], a, den)
                component_heuristics ==
                    applied_heuristics \o Concat([k \in 1..Len(rules) |-> rules[k].tags])
            IN  ComponentSuggestion(lib[i], i,
                    [values |-> <<lib[i].capacitance, lib[i].voltage, lib[i].esr,
                                  lib[i].ripple_rating>>,
                     ratios |-> <<lib[i].voltage, a.max_voltage>>,
                     applied |-> SubSeq(component_heuristics, 2,
                                        IF Len(component_heuristics) < 3
                                        THEN Len(component_heuristics) ELSE 3)],
                    100 * den + SumSeq([k \in 1..Len(rules) |-> rules[k].delta]),
                    component_heuristics)
        sorted == SortByScore([k \in 1..Len(cands) |-> Suggestion(cands[k])])
        suggestions ==
            IF sorted = << >> THEN sorted
            ELSE [sorted EXCEPT ![1].heuristics_applied = @ \o
                     <<Tag("Input capacitor design heuristics applied", << >>)>>]
        used == Margins(mg.voltage_margin, 0, mg.capacitance_tolerance)
    IN  IF divided # << >> /\ a.required = 0
        THEN Outcome("suggest_input_capacitors", a, used, "ZeroDivisionError", << >>, 0, << >>, << >>)
        ELSE IF cands # << >> /\ a.max_voltage = 0
        THEN Outcome("suggest_input_capacitors", a, used, "ZeroDivisionError",
                     <<Head(cands)>>, 0, << >>, << >>)
        ELSE Outcome("suggest_input_capacitors", a, used, "returned", cands,
                     IF cands = << >> THEN 1 ELSE den, suggestions, Take(suggestions, 5))

----------------------------------------------------------------------------
(* suggest_inductors, local catalog; currents in hundredths of A *)

\* inductance tolerance in percent
RECURSIVE InductorMargins(_, _)
InductorMargins(criteria, acc) ==
    IF criteria = << >> THEN acc
    ELSE LET c  == Head(criteria)
             pc == Override(c.current_rating_guidelines, {"margin", "derating"}, 10, 100)
             pt == Override(c.inductance_selection, {"tolerance", "range"}, 10, 100)
         IN  InductorMargins(Tail(criteria),
                 [current_margin |-> IF pc # -1 THEN 100 + pc ELSE acc.current_margin,
                  inductance_tolerance |-> IF pt # -1 THEN pt ELSE acc.inductance_tolerance,
                  applied |-> acc.applied
                      \o (IF pc # -1 THEN <<Tag("Applied current margin from heuristics", <<pc>>)>>
                          ELSE << >>)
                      \o (IF pt # -1 THEN <<Tag("Applied inductance tolerance from heuristics", <<pt>>)>>
                          ELSE << >>)])

\* the rated current alone, the saturation current left unchecked
InductorCurrentOkRated(inductor, a, mg) ==
    ~(inductor.current * 100 < a.max_current * mg.current_margin)

\* the two current checks of the filter
InductorCurrentOk(inductor, a, mg) ==
    /\ ~(inductor.current * 100 < a.max_current * mg.current_margin)
    /\ ~(inductor.sat_current * 100 < a.max_current * mg.current_margin)

\* ind_ratio = inductance / required against 1 - tolerance and 1 + tolerance,
\* for a required inductance above zero
InductanceOk(inductor, a, mg) ==
    ~(\/ inductor.inductance * 100 < (100 - mg.inductance_tolerance) * a.required
      \/ inductor.inductance * 100 > (100 + mg.inductance_tolerance) * a.required)

\* 'SO' in inductor.package.upper(), for the package names of the catalogs
HasSO(package) == package \in {"SO1206", "SO2220", "SuperSO8", "SO-8"}

\* the DCR penalty weighted by 1.5 at every frequency
InductorRulesFlatDcr(inductor, a, rc, den, h) ==
    << Rule(-(Abs(inductor.inductance - a.required) * 50 * (den \div a.required)), << >>),
       Rule(-(inductor.dcr * 3 * (den \div 200)),
            IF a.frequency > 100
            THEN <<Tag("High-frequency DCR penalty applied", << >>)>> ELSE << >>),
       IF inductor.current * 100 > 2 * rc
       THEN Rule(-((inductor.current * 100 - 2 * rc) * 10 * (den \div rc)), << >>)
       ELSE IF 12 * rc <= inductor.current * 1000 /\ inductor.current * 1000 <= 18 * rc
       THEN Rule(5 * den, <<Tag("Optimal current utilization", << >>)>>)
       ELSE NoRule,
       ManufacturerRule(h.analysis.selection_criteria, "core_material_recommendations",
                        inductor.manufacturer, den),
       IF a.frequency > 100 /\ HasSO(inductor.package)
       THEN Rule(5 * den, <<Tag("SMD package suitable for high frequency", << >>)>>)
       ELSE NoRule >>

InductorRules(inductor, a, rc, den, h) ==
    << Rule(-(Abs(inductor.inductance - a.required) * 50 * (den \div a.required)), << >>),
       Rule(-(inductor.dcr * (IF a.frequency > 100 THEN 3 ELSE 2) * (den \div 200)),
            IF a.frequency > 100
            THEN <<Tag("High-frequency DCR penalty applied", << >>)>> ELSE << >>),
       IF inductor.current * 100 > 2 * rc
       THEN Rule(-((inductor.current * 100 - 2 * rc) * 10 * (den \div rc)), << >>)
       ELSE IF 12 * rc <= inductor.current * 1000 /\ inductor.current * 1000 <= 18 * rc
       THEN Rule(5 * den, <<Tag("Optimal current utilization", << >>)>>)
       ELSE NoRule,
       ManufacturerRule(h.analysis.selection_criteria, "core_material_recommendations",
                        inductor.manufacturer, den),
       IF a.frequency > 100 /\ HasSO(inductor.package)
       THEN Rule(5 * den, <<Tag("SMD package suitable for high frequency", << >>)>>)
       ELSE NoRule >>

suggest_inductors(lib, dir, a) ==
    LET h  == Heuristics(dir.broken,
                         IF dir.broken THEN NoAnalysis ELSE analyze_inductor_heuristics(dir))
        mg == InductorMargins(h.analysis.selection_criteria,
                              [current_margin |-> 120, inductance_tolerance |-> 400,
                               applied |-> h.applied])
        rc == a.max_current * mg.current_margin
        divided == Positions(lib, LAMBDA l : InductorCurrentOk(l, a, mg))
        cands == Positions(lib, LAMBDA l : InductorCurrentOk(l, a, mg) /\ InductanceOk(l, a, mg))
        den == Lcm(Lcm(200, a.required), rc)
        Suggestion(i) ==
            LET rules == InductorRules(lib[i], a, rc, den, h)
                component_heuristics ==
                    mg.applied \o Concat([k \in 1..Len(rules) |-> rules[k].tags])
            IN  ComponentSuggestion(lib[i], i,
                    [values |-> <<lib[i].inductance, lib[i].current, lib[i].sat_current,
                                  lib[i].dcr>>,
                     ratios |-> <<lib[i].current * 100, rc>>,
                     applied |-> Take(component_heuristics, 2)],
                    100 * den + SumSeq([k \in 1..Len(rules) |-> rules[k].delta]),
                    component_heuristics)
        sorted == SortByScore([k \in 1..Len(cands) |-> Suggestion(cands[k])])
        suggestions == AddGlobalSummary(sorted, mg.applied, h.analysis.documents_found)
        used == Margins(0, mg.current_margin, mg.inductance_tolerance)
    IN  IF divided # << >> /\ a.required = 0
        THEN Outcome("suggest_inductors", a, used, "ZeroDivisionError", << >>, 0, << >>, << >>)
        ELSE IF cands # << >> /\ rc = 0
        THEN Outcome("suggest_inductors", a, used, "ZeroDivisionError", <<Head(cands)>>, 0, << >>, << >>)
        ELSE IF cands # << >> /\ mg.applied # << >> /\ h.failed
        THEN Outcome("suggest_inductors", a, used, "AttributeError", cands, 0, << >>, << >>)
        ELSE Outcome("suggest_inductors", a, used, "returned", cands,
                     IF cands = << >> THEN 1 ELSE den, suggestions, Take(suggestions, 5))

----------------------------------------------------------------------------
(* The environment of the engine: heuristics directories and arguments *)

DirAbsent == Dir(FALSE, << >>)

\* os.listdir raises (the path is not a directory, or may not be read)
DirBroken == Dir(TRUE, << >>)

\* one document python-docx cannot read: read_docx_content returns ""
DirUnreadableDoc == Dir(FALSE, <<Doc(1, << >>)>>)

HeuristicsNone == [f \in Families |-> DirAbsent]

HeuristicsBroken == [f \in Families |-> DirBroken]

HeuristicsOneDoc ==
    [f \in Families |->
        IF f = "mosfet" THEN Dir(FALSE, <<Doc(1, <<LineCurrentMargin30, LineInfineon>>)>>)
        ELSE IF f = "capacitor" THEN Dir(FALSE, <<Doc(1, <<LineVoltageDerating50, LineMurata>>)>>)
        ELSE IF f = "inductor"
        THEN Dir(FALSE, <<Doc(1, <<LineCurrentMargin30, LineFerriteCoilcraft>>)>>)
        ELSE DirAbsent]

HeuristicsTwoDocs ==
    [f \in Families |->
        IF f = "mosfet"
        THEN Dir(FALSE, <<Doc(1, <<LineInfineon, LineDerating40>>),
                          Doc(2, <<LineOnsemiInfineon, LineVoltageDerating50, LineMargin5>>)>>)
        ELSE IF f = "capacitor"
        THEN Dir(FALSE, <<Doc(1, <<LineCapTolerance50>>),
                          Doc(2, <<LineCapRange300, LineMurata>>)>>)
        ELSE IF f = "inductor"
        THEN Dir(FALSE, <<Doc(1, <<LineIndTolerance20>>),
                          Doc(2, <<LineCurrent25, LineFerriteCoilcraft>>)>>)
        ELSE DirAbsent]

HeuristicsUnreadable ==
    [f \in Families |->
        IF f = "capacitor" THEN Dir(FALSE, <<Doc(1, <<LineCapTolerance50>>)>>)
        ELSE DirUnreadableDoc]

HeuristicsConfigs == {HeuristicsNone, HeuristicsBroken, HeuristicsOneDoc,
                      HeuristicsTwoDocs, HeuristicsUnreadable}

Frequencies == {65, 150}

MosfetVoltages == {0, 20, 40, 80}

MosfetCurrents == {0, 5, 10, 50}

CapacitorRequired == {0, 10, 20}

CapacitorVoltages == {0, 5, 10}

InputCapacitorRequired == {0, 10}

InputCapacitorVoltages == {0, 12, 24}

RippleCurrents == {10, 50}

InductorRequired == {0, 10, 11}

InductorCurrents == {0, 200, 300}

\* how many later calls the comparison of a repeated call looks back over
MaxLater == 2

NoCall == Outcome("none", Args(0, 0, 0, 0, 0), Margins(0, 0, 0), "none", << >>, 1, << >>, << >>)

----------------------------------------------------------------------------
(* lib/web_component_scraper.py : the distributor lookup                   *)
(*                                                                         *)
(* Time is kept by clocks and timers in seconds.  A clock counts the time  *)
(* since an event up to min_request_interval, where it stays: all the code *)
(* asks of such a time is whether it is below the interval.  A timer is    *)
(* what is left of a time.sleep or of the wait for a response.             *)

min_request_interval == 3

max_retries == 3

\* timeout=15 of _make_request_with_retry
MouserTimeout == 15

\* timeout=20 of the session.get of search_digikey
DigikeyTimeout == 20

\* the callers there can be, each with a WebComponentScraper of its own
Scrapers == {"a", "b"}

\* searches one caller makes on its scraper
MaxSearches == 2

\* seconds a response that is not a timeout takes
Latencies == {0, 1}

\* seconds that pass while no search is running
Pauses == {1, 3}

ComponentTypes == {"mosfet", "input_capacitor"}

Distributors == {"Mouser", "Digikey"}

Cap(t) == IF t > min_request_interval THEN min_request_interval ELSE t

\* the part numbers of fallback_data of _get_mouser_fallback_components
mouser_fallback_data(component_type) ==
    IF component_type = "mosfet"
    THEN <<"IRF540NPBF", "IRLB8721PBF", "STP36NF06L", "FQP30N06L", "IRFZ44NPBF">>
    ELSE IF component_type = "inductor"
    THEN <<"SRR1260-220M", "SRN6045-100M", "CDRH104R-470MC", "SRR1005-100M", "CDRH125-220M">>
    ELSE <<"EEU-FR1V101", "UVR1V101MPD", "25SVP47M", "ECA-1VHG221", "URS1E221MPD">>

\* the part numbers of fallback_data of _get_digikey_fallback_components
digikey_fallback_data(component_type) ==
    IF component_type = "mosfet"
    THEN <<"IRLB8721PBF-ND", "IRF540NPBF-ND", "STP36NF06L-ND", "FQP30N06L-ND", "IRFZ44NPBF-ND">>
    ELSE IF component_type = "inductor"
    THEN <<"SRR1260-220MCT-ND", "SRN6045-100MCT-ND", "CDRH104R-470MC-ND",
           "SRR1005-100MCT-ND", "CDRH125-220MC-ND">>
    ELSE <<"P5555-ND", "493-1795-ND", "1189-1583-ND", "P966-ND", "493-2105-ND">>

\* the part numbers re.findall finds in a Mouser page that has some
PagePartNumbers == {"IRF540N", "BSC016N06NS"}

\* list(set(part_numbers))[:5]: the set iterates in an order of its own
UniqueParts == {<<"IRF540N", "BSC016N06NS">>, <<"BSC016N06NS", "IRF540N">>}

\* WebComponentScraper.__init__ and a caller that has not searched yet.
\* since_last is time.time() - last_request_time, far above the interval for
\* last_request_time = 0; since_get is the time since the scraper's last
\* session.get and spacing what since_get was when that get was made.
\* wait_time is the argument of the last time.sleep of a retry, backoffs the
\* wait_time of the 429 answers that came one after the other, page the kind
\* of page the Mouser request of the search was answered with.
NewScraper ==
    [op |-> "none", component_type |-> "none", pc |-> "idle", status |-> "none",
     attempt |-> 0, timer |-> 0, pending |-> "none",
     since_last |-> min_request_interval,
     since_get |-> min_request_interval,
     spacing |-> min_request_interval,
     requests |-> [d \in Distributors |-> 0],
     sleeps |-> 0,
     wait_time |-> 0,
     backoffs |-> << >>,
     page |-> "none",
     searches |-> 0,
     source |-> [d \in Distributors |-> "none"],
     results |-> [d \in Distributors |-> << >>]]

\* no request yet: by and earlier are the callers of the last two requests,
\* since the time since the last one, spacing the time between the two
NoneFired == [by |-> "none", earlier |-> "none",
              since |-> min_request_interval, spacing |-> min_request_interval]

\* the callers there are
Callers == DOMAIN scraper

\* one caller, nothing requested yet
WebIdle ==
    /\ scraper = [s \in {"a"} |-> NewScraper]
    /\ fired = NoneFired

\* session.get is called by s, for a page of the distributor
Get(s, distributor, pc, latency, pending) ==
    /\ scraper' = [scraper EXCEPT ![s] =
           [@ EXCEPT !.pc = pc, !.timer = latency, !.pending = pending,
                     !.requests[distributor] = @ + 1,
                     !.spacing = scraper[s].since_get,
                     !.since_get = 0,
                     !.since_last = IF distributor = "Mouser" THEN 0 ELSE @]]
    /\ fired' = [by |-> s, earlier |-> fired.by, since |-> 0, spacing |-> fired.since]

\* a search starts: the entry of search_mouser, search_digikey or
\* search_components
Enter(s, op, component_type, pc) ==
    /\ scraper[s].pc = "idle"
    /\ scraper[s].searches < MaxSearches
    /\ scraper' = [scraper EXCEPT ![s] =
           IF WEB_SCRAPING_AVAILABLE
           THEN [@ EXCEPT !.op = op, !.component_type = component_type, !.pc = pc,
                          !.status = "running", !.attempt = 0,
                          !.requests = [d \in Distributors |-> 0], !.sleeps = 0,
                          !.wait_time = 0, !.backoffs = << >>, !.page = "none",
                          !.searches = @ + 1,
                          !.source = [d \in Distributors |-> "none"],
                          !.results = [d \in Distributors |-> << >>]]
           ELSE [@ EXCEPT !.op = op, !.component_type = component_type,
                          !.status = "returned",
                          !.requests = [d \in Distributors |-> 0], !.sleeps = 0,
                          !.wait_time = 0, !.backoffs = << >>, !.page = "none",
                          !.searches = @ + 1,
                          !.source = [d \in Distributors |-> "none"],
                          !.results = [d \in Distributors |-> << >>]]]
    /\ UNCHANGED <<catalogVars, heuristics_dir, call, pinned, WEB_SCRAPING_AVAILABLE, fired>>

search_mouser(s, component_type) ==
    Enter(s, "search_mouser", component_type, "_make_request_with_retry")

search_digikey(s, component_type) ==
    Enter(s, "search_digikey", component_type, "search_digikey")

search_components(s, component_type) ==
    Enter(s, "search_components", component_type, "_make_request_with_retry")

\* self._get_mouser_fallback_components, self._get_digikey_fallback_components
\* and self._extract_digikey_components_advanced are looked up on the scraper:
\* the class has no such attribute (the three def statements stand after the
\* return of format_web_components_for_display), so the lookup raises
\* AttributeError, also in the except clauses, and the search ends with it
Raised(r) == [r EXCEPT !.pc = "idle", !.status = "AttributeError", !.timer = 0,
                       !.pending = "none"]

\* _rate_limit: too early, so sleep for what is missing
RateLimitSleep(s) ==
    /\ scraper[s].pc = "_make_request_with_retry"
    /\ scraper[s].since_last < min_request_interval
    /\ scraper' = [scraper EXCEPT ![s] =
           [@ EXCEPT !.pc = "_rate_limit",
                     !.timer = min_request_interval - scraper[s].since_last,
                     !.sleeps = @ + 1]]
    /\ UNCHANGED <<catalogVars, heuristics_dir, call, pinned, WEB_SCRAPING_AVAILABLE, fired>>

\* the end of _rate_limit (last_request_time = time.time()) and the session.get
\* of _make_request_with_retry; the request is answered after the latency, or
\* runs into its timeout when the latency is the timeout
MouserGet(s, latency) ==
    /\ \/ /\ scraper[s].pc = "_make_request_with_retry"
          /\ ~(scraper[s].since_last < min_request_interval)
       \/ /\ scraper[s].pc = "_rate_limit"
          /\ scraper[s].timer = 0
    /\ Get(s, "Mouser", "mouser_get", latency,
           IF latency = MouserTimeout THEN "Timeout" ELSE "response")
    /\ UNCHANGED <<catalogVars, heuristics_dir, call, pinned, WEB_SCRAPING_AVAILABLE>>

\* one retry more than max_retries
CanRetryOnceMore(attempt) == attempt < max_retries + 1

\* if attempt < self.max_retries
CanRetry(attempt) == attempt < max_retries

\* what _make_request_with_retry does with the answer, and search_mouser with
\* the page: "429", "RequestException" (a transport error, or the HTTPError of
\* raise_for_status), a page with grid-item containers and no part number in
\* its text ("grid"), one with containers and part numbers ("grid_parts"), one
\* with part numbers and no container ("parts"), a page with neither ("empty")
MouserResponse(s, outcome) ==
    LET r == scraper[s]
        failed == r.pending = "Timeout" \/ outcome \in {"429", "RequestException"}
        wait_time == IF r.pending # "Timeout" /\ outcome = "429"
                     THEN (r.attempt + 1) * 5 ELSE 2
    IN
    /\ r.pc = "mouser_get"
    /\ r.timer = 0
    /\ r.pending = "Timeout" => outcome = "RequestException"
    /\ \/ /\ failed
          /\ scraper' = [scraper EXCEPT ![s] =
                 IF CanRetry(r.attempt)
                 THEN [r EXCEPT !.pc = "retry_sleep", !.timer = wait_time,
                                !.pending = "none", !.sleeps = @ + 1,
                                !.wait_time = wait_time,
                                !.backoffs = IF r.pending # "Timeout" /\ outcome = "429"
                                             THEN Append(@, wait_time) ELSE << >>]
                 ELSE Raised(r)]
       \/ /\ ~failed
          /\ outcome \in {"grid", "grid_parts", "empty"}
          /\ scraper' = [scraper EXCEPT ![s] = Raised([r EXCEPT !.page = outcome])]
       \/ /\ ~failed
          /\ outcome = "parts"
          /\ \E unique_parts \in UniqueParts :
                scraper' = [scraper EXCEPT ![s] =
                    IF r.op = "search_mouser"
                    THEN [r EXCEPT !.pc = "idle", !.status = "returned",
                                   !.pending = "none", !.page = outcome,
                                   !.source["Mouser"] = "scraped",
                                   !.results["Mouser"] = Take(unique_parts, 5)]
                    ELSE [r EXCEPT !.pc = "search_digikey", !.attempt = 0,
                                   !.pending = "none", !.page = outcome,
                                   !.source["Mouser"] = "scraped",
                                   !.results["Mouser"] = Take(unique_parts, 5)]]
    /\ UNCHANGED <<catalogVars, heuristics_dir, call, pinned, WEB_SCRAPING_AVAILABLE, fired>>

\* time.sleep(wait_time) or time.sleep(2) is over: continue with the next attempt
Retry(s) ==
    /\ scraper[s].pc = "retry_sleep"
    /\ scraper[s].timer = 0
    /\ scraper' = [scraper EXCEPT ![s] =
           [@ EXCEPT !.pc = "_make_request_with_retry", !.attempt = @ + 1]]
    /\ UNCHANGED <<catalogVars, heuristics_dir, call, pinned, WEB_SCRAPING_AVAILABLE, fired>>

\* if attempt > 0: time.sleep(15 + attempt * 10)
DigikeyWait(s) ==
    /\ scraper[s].pc = "search_digikey"
    /\ scraper[s].attempt > 0
    /\ scraper' = [scraper EXCEPT ![s] =
           [@ EXCEPT !.pc = "digikey_sleep", !.timer = 15 + scraper[s].attempt * 10,
                     !.sleeps = @ + 1]]
    /\ UNCHANGED <<catalogVars, heuristics_dir, call, pinned, WEB_SCRAPING_AVAILABLE, fired>>

\* self.session.get(category_url, timeout=20): _rate_limit is not called and
\* last_request_time is left as it is
DigikeyGet(s, latency) ==
    /\ \/ /\ scraper[s].pc = "search_digikey"
          /\ scraper[s].attempt = 0
       \/ /\ scraper[s].pc = "digikey_sleep"
          /\ scraper[s].timer = 0
    /\ Get(s, "Digikey", "digikey_get", latency,
           IF latency = DigikeyTimeout THEN "Timeout" ELSE "response")
    /\ UNCHANGED <<catalogVars, heuristics_dir, call, pinned, WEB_SCRAPING_AVAILABLE>>

\* status 200 goes to self._extract_digikey_components_advanced; 429, any
\* other status and a RequestException go to the next attempt and, after the
\* second one, to self._get_digikey_fallback_components
DigikeyResponse(s, outcome) ==
    LET r == scraper[s]
    IN
    /\ r.pc = "digikey_get"
    /\ r.timer = 0
    /\ r.pending = "Timeout" => outcome = "RequestException"
    /\ scraper' = [scraper EXCEPT ![s] =
           IF outcome # "200" /\ r.attempt + 1 < 2
           THEN [r EXCEPT !.pc = "search_digikey", !.attempt = @ + 1, !.pending = "none"]
           ELSE Raised(r)]
    /\ UNCHANGED <<catalogVars, heuristics_dir, call, pinned, WEB_SCRAPING_AVAILABLE, fired>>

Waiting(r) == r.pc \in {"_rate_limit", "mouser_get", "retry_sleep", "digikey_sleep",
                        "digikey_get"}

\* d seconds pass
Pass(d) ==
    /\ scraper' = [s \in Callers |->
           [scraper[s] EXCEPT !.timer = IF Waiting(scraper[s]) THEN @ - d ELSE @,
                              !.since_last = Cap(@ + d),
                              !.since_get = Cap(@ + d)]]
    /\ fired' = [fired EXCEPT !.since = Cap(@ + d)]
    /\ UNCHANGED <<catalogVars, heuristics_dir, call, pinned, WEB_SCRAPING_AVAILABLE>>

\* every running search sleeps or waits for its response: time runs up to the
\* first moment one of them goes on
Advance ==
    /\ \E s \in Callers : scraper[s].pc # "idle"
    /\ \A s \in Callers :
          scraper[s].pc # "idle" => Waiting(scraper[s]) /\ scraper[s].timer > 0
    /\ Pass(MinOf({scraper[s].timer : s \in {x \in Callers : scraper[x].pc # "idle"}}))

\* no search is running
Pause ==
    /\ \A s \in Callers : scraper[s].pc = "idle"
    /\ \E d \in Pauses : Pass(d)

Step(s) ==
    \/ RateLimitSleep(s)
    \/ \E latency \in Latencies \cup {MouserTimeout} : MouserGet(s, latency)
    \/ \E outcome \in {"429", "RequestException", "grid", "grid_parts", "parts", "empty"} :
          MouserResponse(s, outcome)
    \/ Retry(s)
    \/ DigikeyWait(s)
    \/ \E latency \in Latencies \cup {DigikeyTimeout} : DigikeyGet(s, latency)
    \/ \E outcome \in {"200", "429", "status", "RequestException"} :
          DigikeyResponse(s, outcome)

----------------------------------------------------------------------------
(* The engine as a state machine: catalogs loaded at import, then any      *)
(* sequence of local-catalog suggest_* calls                               *)

\* a caller's copy of what an earlier call returned, and the number of calls
\* made since (counted up to MaxLater)
NoPin == [call |-> NoCall, later |-> 0]

Later(p) ==
    IF p.call.op = "none" \/ p.later = MaxLater THEN p
    ELSE [p EXCEPT !.later = @ + 1]

\* the four collections component_data holds at this moment
Held ==
    [MOSFET_LIBRARY |-> MOSFET_LIBRARY,
     CAPACITOR_LIBRARY |-> CAPACITOR_LIBRARY,
     INPUT_CAPACITOR_LIBRARY |-> INPUT_CAPACITOR_LIBRARY,
     INDUCTOR_LIBRARY |-> INDUCTOR_LIBRARY]

\* the four collections as the loaders give them for the files on disk
Loaded(files) ==
    [MOSFET_LIBRARY |-> load_mosfets_from_csv(files["mosfet"]),
     CAPACITOR_LIBRARY |-> load_capacitors_from_csv(files["capacitor"]),
     INPUT_CAPACITOR_LIBRARY |-> load_input_capacitors_from_csv(files["input_capacitor"]),
     INDUCTOR_LIBRARY |-> load_inductors_from_csv(files["inductor"])]

\* no reload_component_data call yet and nothing read: pc is the line the call
\* stands before, old what component_data held when the call began, new what
\* the files on disk held then, seen what a reader of the four names got
NoReload == [pc |-> "idle", old |-> Held, new |-> Held, read |-> FALSE, seen |-> Held]

\* module import: the four *_LIBRARY assignments of component_data and the
\* from-import of component_suggestions
Import ==
    /\ MOSFET_LIBRARY = load_mosfets_from_csv(csv["mosfet"])
    /\ CAPACITOR_LIBRARY = load_capacitors_from_csv(csv["capacitor"])
    /\ INPUT_CAPACITOR_LIBRARY = load_input_capacitors_from_csv(csv["input_capacitor"])
    /\ INDUCTOR_LIBRARY = load_inductors_from_csv(csv["inductor"])
    /\ imported = [MOSFET_LIBRARY |-> MOSFET_LIBRARY,
                   CAPACITOR_LIBRARY |-> CAPACITOR_LIBRARY,
                   INPUT_CAPACITOR_LIBRARY |-> INPUT_CAPACITOR_LIBRARY,
                   INDUCTOR_LIBRARY |-> INDUCTOR_LIBRARY]

Init ==
    /\ csv \in {[f \in Families |-> "ok"], [f \in Families |-> "missing"]}
    /\ Import
    /\ reload = NoReload
    /\ heuristics_dir \in HeuristicsConfigs
    /\ call = NoCall
    /\ pinned = NoPin
    /\ WEB_SCRAPING_AVAILABLE = TRUE
    /\ WebIdle

\* a call that ranks the catalog list itself, MOSFET_LIBRARY.sort(reverse=True)
\* in place of the sort of the suggestions: the list object the module
\* imported is reordered, and with it the name of component_data bound to it
SuggestMosfetsInPlace(max_voltage, max_current, frequency) ==
    /\ call' = suggest_mosfets(imported.MOSFET_LIBRARY, heuristics_dir["mosfet"],
                               Args(0, max_voltage, max_current, 0, frequency))
    /\ pinned' = Later(pinned)
    /\ imported' = [imported EXCEPT !.MOSFET_LIBRARY = [i \in 1..Len(@) |-> @[Len(@) + 1 - i]]]
    /\ MOSFET_LIBRARY' = IF MOSFET_LIBRARY = imported.MOSFET_LIBRARY
                         THEN imported'.MOSFET_LIBRARY ELSE MOSFET_LIBRARY
    /\ UNCHANGED <<CAPACITOR_LIBRARY, INPUT_CAPACITOR_LIBRARY, INDUCTOR_LIBRARY, csv, reload, heuristics_dir, webVars>>

SuggestMosfets(max_voltage, max_current, frequency) ==
    /\ call' = suggest_mosfets(imported.MOSFET_LIBRARY, heuristics_dir["mosfet"],
                               Args(0, max_voltage, max_current, 0, frequency))
    /\ pinned' = Later(pinned)
    /\ UNCHANGED <<catalogVars, heuristics_dir, webVars>>

SuggestCapacitors(required, max_voltage, frequency) ==
    /\ call' = suggest_capacitors(imported.CAPACITOR_LIBRARY, heuristics_dir["capacitor"],
                                  Args(required, max_voltage, 0, 0, frequency))
    /\ pinned' = Later(pinned)
    /\ UNCHANGED <<catalogVars, heuristics_dir, webVars>>

SuggestInputCapacitors(required, max_voltage, ripple_current, frequency) ==
    /\ call' = suggest_input_capacitors(imported.INPUT_CAPACITOR_LIBRARY,
                                        Args(required, max_voltage, 0, ripple_current, frequency))
    /\ pinned' = Later(pinned)
    /\ UNCHANGED <<catalogVars, heuristics_dir, webVars>>

SuggestInductors(required, max_current, frequency) ==
    /\ call' = suggest_inductors(imported.INDUCTOR_LIBRARY, heuristics_dir["inductor"],
                                 Args(required, 0, max_current, 0, frequency))
    /\ pinned' = Later(pinned)
    /\ UNCHANGED <<catalogVars, heuristics_dir, webVars>>

\* the documents of the heuristics directories are edited between calls; call
\* and pinned hold outcomes of calls made since the last edit only
ChangeHeuristics ==
    /\ \E h \in HeuristicsConfigs : h # heuristics_dir /\ heuristics_dir' = h
    /\ call' = NoCall
    /\ pinned' = NoPin
    /\ UNCHANGED <<catalogVars, webVars>>

Next ==
    \/ \E v \in MosfetVoltages, c \in MosfetCurrents, f \in Frequencies :
          SuggestMosfets(v, c, f)
    \/ \E r \in CapacitorRequired, v \in CapacitorVoltages, f \in Frequencies :
          SuggestCapacitors(r, v, f)
    \/ \E r \in InputCapacitorRequired, v \in InputCapacitorVoltages,
          i \in RippleCurrents, f \in Frequencies :
          SuggestInputCapacitors(r, v, i, f)
    \/ \E r \in InductorRequired, c \in InductorCurrents, f \in Frequencies :
          SuggestInductors(r, c, f)
    \/ ChangeHeuristics

Spec == Init /\ [][Next]_vars

----------------------------------------------------------------------------
(* Repeated calls: a caller keeps what a call returned and makes the same  *)
(* call again later, other calls in between                                *)

Pin ==
    /\ call.op # "none"
    /\ pinned.call # call
    /\ pinned' = [call |-> call, later |-> 0]
    /\ UNCHANGED <<catalogVars, heuristics_dir, call, webVars>>

RepeatNext ==
    \/ \E c \in {5, 10}, f \in Frequencies : SuggestMosfets(20, c, f)
    \/ \E v \in {5, 10} : SuggestCapacitors(10, v, 150)
    \/ \E i \in RippleCurrents : SuggestInputCapacitors(10, 12, i, 65)
    \/ \E c \in {200, 300} : SuggestInductors(10, c, 65)
    \/ Pin
    \/ ChangeHeuristics

RepeatSpec == Init /\ [][RepeatNext]_vars

----------------------------------------------------------------------------
(* The catalog store: the files change on disk, reload_component_data      *)

CatalogInit ==
    /\ csv \in [Families -> CsvStates]
    /\ Import
    /\ reload = NoReload
    /\ heuristics_dir = HeuristicsNone
    /\ call = NoCall
    /\ pinned = NoPin
    /\ WEB_SCRAPING_AVAILABLE = TRUE
    /\ WebIdle

\* a catalog file is written, removed or damaged
ChangeCsv ==
    /\ \E f \in Families, file \in CsvStates :
          /\ file # csv[f]
          /\ csv' = [csv EXCEPT ![f] = file]
    /\ UNCHANGED <<MOSFET_LIBRARY, CAPACITOR_LIBRARY, INPUT_CAPACITOR_LIBRARY,
                   INDUCTOR_LIBRARY, imported, reload, heuristics_dir, call, pinned,
                   webVars>>

\* global MOSFET_LIBRARY, CAPACITOR_LIBRARY, INDUCTOR_LIBRARY: the three names
\* of component_data are rebound; INPUT_CAPACITOR_LIBRARY and the names
\* component_suggestions imported are not
reload_component_data ==
    /\ MOSFET_LIBRARY' = load_mosfets_from_csv(csv["mosfet"])
    /\ CAPACITOR_LIBRARY' = load_capacitors_from_csv(csv["capacitor"])
    /\ INDUCTOR_LIBRARY' = load_inductors_from_csv(csv["inductor"])
    /\ UNCHANGED <<INPUT_CAPACITOR_LIBRARY, imported, csv, reload, heuristics_dir,
                   call, pinned, webVars>>

CatalogNext ==
    \/ ChangeCsv
    \/ reload_component_data

CatalogSpec == CatalogInit /\ [][CatalogNext]_vars

----------------------------------------------------------------------------
(* reload_component_data line by line, while other threads of the process  *)
(* read the catalogs: a session reading the four names of component_data,  *)
(* and suggest_* calls after the reload has returned                       *)

ReloadInit ==
    /\ csv = [f \in Families |-> "ok"]
    /\ Import
    /\ reload = NoReload
    /\ heuristics_dir = HeuristicsNone
    /\ call = NoCall
    /\ pinned = NoPin
    /\ WEB_SCRAPING_AVAILABLE = TRUE
    /\ WebIdle

\* reload_component_data is called, once the files have been edited
ReloadBegin ==
    /\ reload.pc = "idle"
    /\ reload' = [pc |-> "l311", old |-> Held, new |-> Loaded(csv),
                  read |-> FALSE, seen |-> Held]
    /\ call' = NoCall
    /\ UNCHANGED <<MOSFET_LIBRARY, CAPACITOR_LIBRARY, INPUT_CAPACITOR_LIBRARY,
                   INDUCTOR_LIBRARY, imported, csv, heuristics_dir, pinned, webVars>>

\* MOSFET_LIBRARY = load_mosfets_from_csv()
ReloadMosfets ==
    /\ reload.pc = "l311"
    /\ MOSFET_LIBRARY' = load_mosfets_from_csv(csv["mosfet"])
    /\ reload' = [reload EXCEPT !.pc = "l312"]
    /\ UNCHANGED <<CAPACITOR_LIBRARY, INPUT_CAPACITOR_LIBRARY, INDUCTOR_LIBRARY,
                   imported, csv, heuristics_dir, call, pinned, webVars>>

\* CAPACITOR_LIBRARY = load_capacitors_from_csv()
ReloadCapacitors ==
    /\ reload.pc = "l312"
    /\ CAPACITOR_LIBRARY' = load_capacitors_from_csv(csv["capacitor"])
    /\ reload' = [reload EXCEPT !.pc = "l313"]
    /\ UNCHANGED <<MOSFET_LIBRARY, INPUT_CAPACITOR_LIBRARY, INDUCTOR_LIBRARY,
                   imported, csv, heuristics_dir, call, pinned, webVars>>

\* INDUCTOR_LIBRARY = load_inductors_from_csv(), and the return
ReloadInductors ==
    /\ reload.pc = "l313"
    /\ INDUCTOR_LIBRARY' = load_inductors_from_csv(csv["inductor"])
    /\ reload' = [reload EXCEPT !.pc = "returned"]
    /\ UNCHANGED <<MOSFET_LIBRARY, CAPACITOR_LIBRARY, INPUT_CAPACITOR_LIBRARY,
                   imported, csv, heuristics_dir, call, pinned, webVars>>

\* another thread reads the four names of component_data, as the from-import
\* of pages/component_library.py does on every run of the page
Read ==
    /\ reload.pc \notin {"idle", "returned"}
    /\ ~reload.read
    /\ reload' = [reload EXCEPT !.read = TRUE, !.seen = Held]
    /\ UNCHANGED <<MOSFET_LIBRARY, CAPACITOR_LIBRARY, INPUT_CAPACITOR_LIBRARY,
                   INDUCTOR_LIBRARY, imported, csv, heuristics_dir, call, pinned,
                   webVars>>

ReloadNext ==
    \/ reload.pc = "idle" /\ ChangeCsv
    \/ ReloadBegin
    \/ ReloadMosfets
    \/ ReloadCapacitors
    \/ ReloadInductors
    \/ Read
    \/ reload.pc = "returned" /\ SuggestMosfets(20, 5, 65)
    \/ reload.pc = "returned" /\ SuggestCapacitors(10, 5, 65)
    \/ reload.pc = "returned" /\ SuggestInputCapacitors(10, 12, 10, 65)
    \/ reload.pc = "returned" /\ SuggestInductors(10, 200, 65)

ReloadSpec == ReloadInit /\ [][ReloadNext]_vars

----------------------------------------------------------------------------
(* The distributor lookup: callers searching on scrapers of their own      *)

WebInit ==
    /\ csv = [f \in Families |-> "ok"]
    /\ Import
    /\ reload = NoReload
    /\ heuristics_dir = HeuristicsNone
    /\ call = NoCall
    /\ pinned = NoPin
    /\ WEB_SCRAPING_AVAILABLE \in BOOLEAN
    /\ WebIdle

WebNext ==
    \/ \E s \in Callers, t \in ComponentTypes : search_mouser(s, t)
    \/ \E s \in Callers, t \in ComponentTypes : search_digikey(s, t)
    \/ \E s \in Callers, t \in ComponentTypes : search_components(s, t)
    \/ \E s \in Callers : Step(s)
    \/ Advance
    \/ Pause

WebSpec == WebInit /\ [][WebNext]_vars

\* a running search is scheduled and time passes
FairWebSpec ==
    /\ WebSpec
    /\ WF_vars(\E s \in Callers : Step(s))
    /\ WF_vars(Advance)

\* two callers at once, as two sessions of the application are: each searches
\* Mouser on its own scraper, the server answering at once with a page of part
\* numbers or with 429
ConcurrentInit ==
    /\ csv = [f \in Families |-> "ok"]
    /\ Import
    /\ reload = NoReload
    /\ heuristics_dir = HeuristicsNone
    /\ call = NoCall
    /\ pinned = NoPin
    /\ WEB_SCRAPING_AVAILABLE = TRUE
    /\ scraper = [s \in Scrapers |-> NewScraper]
    /\ fired = NoneFired

ConcurrentNext ==
    \/ \E s \in Callers : search_mouser(s, "mosfet")
    \/ \E s \in Callers : RateLimitSleep(s)
    \/ \E s \in Callers : MouserGet(s, 0)
    \/ \E s \in Callers, outcome \in {"429", "parts"} : MouserResponse(s, outcome)
    \/ \E s \in Callers : Retry(s)
    \/ Advance
    \/ Pause

ConcurrentSpec == ConcurrentInit /\ [][ConcurrentNext]_vars

----------------------------------------------------------------------------
(* suggest_* with use_web_search=True: the try block in front of the local *)
(* pipeline.  What the lookup gives is an input of this part: the import,  *)
(* create_component_search_terms or scraper.search_components raise, or    *)
(* search_components returns its map of distributor to components.         *)

\* the fields of a WebComponent the engine copies; package "None" for None
WebComponent(part_number, manufacturer, distributor, package) ==
    [part_number |-> part_number, manufacturer |-> manufacturer,
     distributor |-> distributor, package |-> package]

MouserComponents ==
    << WebComponent("W1", "Infineon", "Mouser", "TO-220"),
       WebComponent("W2", "Vishay", "Mouser", "None"),
       WebComponent("W3", "Various", "Mouser", "None"),
       WebComponent("W4", "onsemi", "Mouser", "SO-8"),
       WebComponent("W5", "Various", "Mouser", "None") >>

DigikeyComponents ==
    << WebComponent("W1", "Infineon", "Digikey", "TO-220"),
       WebComponent("K2", "Various", "Digikey", "None"),
       WebComponent("K3", "Rohm", "Digikey", "D2PAK"),
       WebComponent("K4", "Various", "Digikey", "None"),
       WebComponent("K5", "Various", "Digikey", "None"),
       WebComponent("K6", "Nexperia", "Digikey", "LFPAK") >>

\* how many components a distributor gave (0: none, so no key in the map)
MouserCounts == {0, 2, 5}

DigikeyCounts == {0, 3, 6}

\* results of search_components: "Mouser" is inserted before "Digikey", and a
\* distributor without components gets no key
WebResults ==
    { SelectSeq(<<[distributor |-> "Mouser", components |-> Take(MouserComponents, m)],
                  [distributor |-> "Digikey", components |-> Take(DigikeyComponents, d)]>>,
                LAMBDA item : item.components # << >>) :
        m \in MouserCounts, d \in DigikeyCounts }

\* how the lookup of a call ended
Lookups ==
    {[raised |-> TRUE, web_results |-> << >>]}
    \cup {[raised |-> FALSE, web_results |-> r] : r \in WebResults}

\* the mock part and its ComponentSuggestion: score=5.0, one tag, no catalog
\* position
WebSuggestion(comp) ==
    ComponentSuggestion(
        [part_number |-> comp.part_number, manufacturer |-> comp.manufacturer,
         package |-> IF comp.package = "None" THEN "See datasheet" ELSE comp.package,
         distributor |-> comp.distributor],
        0,
        [found_on |-> comp.distributor],
        5,
        <<Tag("Web search from", <<comp.distributor>>)>>)

\* return suggestions[:5]
WebTopFive(suggestions) == Take(suggestions, 5)

\* return suggestions[:10]
WebTop(suggestions) == Take(suggestions, 10)

\* for distributor, components in web_results.items(): for comp in components
WebSuggestions(web_results) ==
    Concat([i \in 1..Len(web_results) |->
               [k \in 1..Len(web_results[i].components) |->
                   WebSuggestion(web_results[i].components[k])]])

\* if use_web_search: try ... return suggestions[:10]; except Exception: the
\* function goes on with the local pipeline, whose outcome is local
suggest_use_web_search(op, a, lookup, local) ==
    IF lookup.raised
    THEN local
    ELSE LET suggestions == WebSuggestions(lookup.web_results)
         IN  Outcome(op, a, Margins(0, 0, 0), "returned", << >>, 1, suggestions,
                     WebTop(suggestions))

\* a call with use_web_search=True, with how its lookup ended
WebCall(lookup, outcome) == [lookup |-> lookup, outcome |-> outcome]

NoWebCall == WebCall([raised |-> TRUE, web_results |-> << >>], NoCall)

WebModeInit ==
    /\ csv \in {[f \in Families |-> "ok"], [f \in Families |-> "missing"]}
    /\ Import
    /\ reload = NoReload
    /\ heuristics_dir \in {HeuristicsNone, HeuristicsBroken, HeuristicsOneDoc}
    /\ call = NoWebCall
    /\ pinned = NoPin
    /\ WEB_SCRAPING_AVAILABLE = TRUE
    /\ WebIdle

WebSuggestMosfets(max_voltage, max_current, lookup) ==
    /\ LET a == Args(0, max_voltage, max_current, 0, 65)
       IN  call' = WebCall(lookup,
                     suggest_use_web_search("suggest_mosfets", a, lookup,
                         suggest_mosfets(imported.MOSFET_LIBRARY, heuristics_dir["mosfet"], a)))
    /\ UNCHANGED <<catalogVars, heuristics_dir, pinned, webVars>>

WebSuggestCapacitors(required, max_voltage, lookup) ==
    /\ LET a == Args(required, max_voltage, 0, 0, 65)
       IN  call' = WebCall(lookup,
                     suggest_use_web_search("suggest_capacitors", a, lookup,
                         suggest_capacitors(imported.CAPACITOR_LIBRARY,
                                            heuristics_dir["capacitor"], a)))
    /\ UNCHANGED <<catalogVars, heuristics_dir, pinned, webVars>>

WebSuggestInputCapacitors(required, max_voltage, lookup) ==
    /\ LET a == Args(required, max_voltage, 0, 10, 65)
       IN  call' = WebCall(lookup,
                     suggest_use_web_search("suggest_input_capacitors", a, lookup,
                         suggest_input_capacitors(imported.INPUT_CAPACITOR_LIBRARY, a)))
    /\ UNCHANGED <<catalogVars, heuristics_dir, pinned, webVars>>

WebSuggestInductors(required, max_current, lookup) ==
    /\ LET a == Args(required, 0, max_current, 0, 65)
       IN  call' = WebCall(lookup,
                     suggest_use_web_search("suggest_inductors", a, lookup,
                         suggest_inductors(imported.INDUCTOR_LIBRARY,
                                           heuristics_dir["inductor"], a)))
    /\ UNCHANGED <<catalogVars, heuristics_dir, pinned, webVars>>

WebModeNext ==
    \/ \E v \in {0, 20}, c \in {5, 10}, lookup \in Lookups : WebSuggestMosfets(v, c, lookup)
    \/ \E r \in {0, 10}, v \in {5, 10}, lookup \in Lookups : WebSuggestCapacitors(r, v, lookup)
    \/ \E r \in {0, 10}, v \in {12, 24}, lookup \in Lookups :
          WebSuggestInputCapacitors(r, v, lookup)
    \/ \E r \in {0, 10}, c \in {200, 300}, lookup \in Lookups :
          WebSuggestInductors(r, c, lookup)

WebModeSpec == WebModeInit /\ [][WebModeNext]_vars

----------------------------------------------------------------------------
(* Properties of the local-catalog calls                                   *)

\* the catalog a call reads
LibraryOf(op) ==
    IF op = "suggest_mosfets" THEN imported.MOSFET_LIBRARY
    ELSE IF op = "suggest_capacitors" THEN imported.CAPACITOR_LIBRARY
    ELSE IF op = "suggest_input_capacitors" THEN imported.INPUT_CAPACITOR_LIBRARY
    ELSE IF op = "suggest_inductors" THEN imported.INDUCTOR_LIBRARY
    ELSE << >>

\* the documented hard filter of a call, on the entry at position i of its
\* catalog, with the margins and the tolerance the call used (in percent)
Qualifies(c, i) ==
    LET e == LibraryOf(c.op)[i]
        a == c.args
        m == c.margins
    IN  IF c.op = "suggest_mosfets"
        THEN /\ e.vds * 100 >= a.max_voltage * m.voltage_margin
             /\ e.id * 100 >= a.max_current * m.current_margin
        ELSE IF c.op \in {"suggest_capacitors", "suggest_input_capacitors"}
        THEN /\ e.voltage * 100 >= a.max_voltage * m.voltage_margin
             /\ e.capacitance * m.tolerance >= a.required * 100
             /\ e.capacitance * 100 <= a.required * m.tolerance
        ELSE /\ e.current * 100 >= a.max_current * m.current_margin
             /\ e.sat_current * 100 >= a.max_current * m.current_margin
             /\ e.inductance * 100 >= (100 - m.tolerance) * a.required
             /\ e.inductance * 100 <= (100 + m.tolerance) * a.required

Qualifying(c) == {i \in 1..Len(LibraryOf(c.op)) : Qualifies(c, i)}

SeqToSet(seq) == {seq[k] : k \in 1..Len(seq)}

ReturnedPositions(c) == {c.result[k].pos : k \in 1..Len(c.result)}

\* the filter loop of the call ran over the whole catalog
RanFilter(c) == c.status \in {"returned", "AttributeError"}

\* the filter loop of the call reached the entry at position i: the loop goes
\* through the catalog in order and stops where the call raises
Examined(c, i) ==
    \/ RanFilter(c)
    \/ \E k \in 1..Len(c.cands) : i <= c.cands[k]

\* C2: a catalog entry the filter loop of suggest_mosfets reaches is a candidate
\* iff vds >= max_voltage * voltage_margin and id >= max_current * current_margin,
\* no returned suggestion violates either bound, and when at most 5 entries
\* satisfy both the call returns all of them.
MosfetFilterAndReturn ==
    call.op = "suggest_mosfets" =>
        /\ SeqToSet(call.cands) \subseteq Qualifying(call)
        /\ \A i \in Qualifying(call) : Examined(call, i) => i \in SeqToSet(call.cands)
        /\ ReturnedPositions(call) \subseteq Qualifying(call)
        /\ Cardinality(Qualifying(call)) <= 5 => ReturnedPositions(call) = Qualifying(call)

\* C3: for suggest_capacitors and suggest_input_capacitors a catalog entry the
\* filter loop reaches is a candidate iff voltage >= max_voltage * voltage_margin
\* and capacitance is within [required / tolerance, required * tolerance]; no
\* returned suggestion is outside the band or below the voltage bound.
CapacitorFilter ==
    call.op \in {"suggest_capacitors", "suggest_input_capacitors"} =>
        /\ SeqToSet(call.cands) \subseteq Qualifying(call)
        /\ \A i \in Qualifying(call) : Examined(call, i) => i \in SeqToSet(call.cands)
        /\ ReturnedPositions(call) \subseteq Qualifying(call)

\* a capacitor call that kept an entry sitting exactly on the voltage bound and
\* dropped another entry
CapacitorFilterWitness ==
    /\ call.op \in {"suggest_capacitors", "suggest_input_capacitors"}
    /\ call.status = "returned"
    /\ Len(call.cands) < Len(LibraryOf(call.op))
    /\ \E k \in 1..Len(call.result) :
          call.result[k].component.voltage * 100
              = call.args.max_voltage * call.margins.voltage_margin

\* C4: a catalog entry the filter loop of suggest_inductors reaches is a candidate
\* iff current and sat_current >= max_current * current_margin and inductance /
\* required within [1 - tolerance, 1 + tolerance]; an inductor rated 3.2 A
\* against 3.0 A with margin 1.2 is not a candidate, whatever its inductance.
InductorFilter ==
    call.op = "suggest_inductors" =>
        /\ SeqToSet(call.cands) \subseteq Qualifying(call)
        /\ \A i \in Qualifying(call) : Examined(call, i) => i \in SeqToSet(call.cands)
        /\ ReturnedPositions(call) \subseteq Qualifying(call)
        /\ \A i \in 1..Len(LibraryOf(call.op)) :
              (/\ LibraryOf(call.op)[i].current = 320
               /\ call.args.max_current = 300
               /\ call.margins.current_margin = 120)
              => i \notin SeqToSet(call.cands) \cup ReturnedPositions(call)

\* suggest_inductors for 3.0 A with margin 1.2 over a catalog holding a 3.2 A
\* inductor of exactly the required inductance, other entries being returned
InductorFilterWitness ==
    /\ call.op = "suggest_inductors"
    /\ call.status = "returned"
    /\ call.result # << >>
    /\ call.args.max_current = 300
    /\ call.margins.current_margin = 120
    /\ \E i \in 1..Len(LibraryOf(call.op)) :
          /\ LibraryOf(call.op)[i].current = 320
          /\ LibraryOf(call.op)[i].inductance = call.args.required

\* C5: every suggest_* call returns exactly min(5, number of entries passing
\* the hard filter) suggestions, in order of non-increasing score, and no
\* passing entry left out scores higher than the last one returned.
TruncationAndRanking ==
    call.op # "none" =>
        LET n == Cardinality(Qualifying(call))
            r == call.result
        IN  /\ call.status = "returned"
            /\ Len(r) = IF n < 5 THEN n ELSE 5
            /\ \A k \in 1..(Len(r) - 1) : r[k].score >= r[k + 1].score
            /\ {call.suggestions[k].pos : k \in 1..Len(call.suggestions)} = Qualifying(call)
            /\ \A k \in 1..Len(call.suggestions) :
                  call.suggestions[k].pos \notin ReturnedPositions(call)
                  => call.suggestions[k].score <= r[Len(r)].score

----------------------------------------------------------------------------
(* Properties of the catalog store and of the distributor lookup           *)

\* the distributors a search asks
Searched(op) ==
    IF op = "search_mouser" THEN {"Mouser"}
    ELSE IF op = "search_digikey" THEN {"Digikey"}
    ELSE IF op = "search_components" THEN Distributors
    ELSE {}

StaticFallback(distributor, component_type) ==
    IF distributor = "Mouser" THEN mouser_fallback_data(component_type)
    ELSE digikey_fallback_data(component_type)

\* C1: whatever the HTTP outcomes, search_mouser, search_digikey and
\* search_components do not raise, and the result of every distributor that
\* gave no components is the static fallback list of the component type.
SearchFallsBackAndNeverRaises ==
    \A s \in Callers :
        (WEB_SCRAPING_AVAILABLE /\ scraper[s].op # "none" /\ scraper[s].pc = "idle") =>
            /\ scraper[s].status = "returned"
            /\ \A d \in Searched(scraper[s].op) :
                  scraper[s].source[d] # "scraped" =>
                      /\ scraper[s].results[d] # << >>
                      /\ scraper[s].results[d]
                             = StaticFallback(d, scraper[s].component_type)

\* C7: a load with the catalog file missing or unreadable gives the fallback
\* list of the family, for all four families, and no catalog is ever empty,
\* neither after startup nor after a reload.
CatalogNeverEmpty ==
    /\ \A file \in {"missing", "corrupt"} :
          /\ load_mosfets_from_csv(file) = get_fallback_mosfets
          /\ load_capacitors_from_csv(file) = get_fallback_capacitors
          /\ load_inductors_from_csv(file) = get_fallback_inductors
          /\ load_input_capacitors_from_csv(file) # << >>
    /\ MOSFET_LIBRARY # << >>
    /\ CAPACITOR_LIBRARY # << >>
    /\ INPUT_CAPACITOR_LIBRARY # << >>
    /\ INDUCTOR_LIBRARY # << >>

\* C8: every HTTP request of a scraper, to Mouser or to Digikey, first attempt
\* or retry, is made at least min_request_interval after the scraper's
\* previous request.
MinimumSpacing ==
    \A s \in Callers : scraper[s].spacing >= min_request_interval

\* C9: requests of two callers are never closer to each other than
\* min_request_interval, however their searches interleave.
SerializedSpacing ==
    (fired.earlier # "none" /\ fired.earlier # fired.by)
    => fired.spacing >= min_request_interval

RetryBounds ==
    \A s \in Callers :
        /\ scraper[s].attempt <= max_retries
        /\ scraper[s].requests["Mouser"] <= max_retries + 1
        /\ scraper[s].requests["Digikey"] <= 2
        /\ scraper[s].sleeps <= 2 * max_retries + 2
        /\ scraper[s].status \in {"none", "running", "returned", "AttributeError"}

\* C10: _make_request_with_retry makes at most max_retries retries after the
\* first attempt, search_digikey at most 2 requests, and every search ends,
\* returning or raising, after a bounded number of requests and sleeps.
BoundedRetryAndTermination ==
    /\ []RetryBounds
    /\ (scraper["a"].status = "running") ~> (scraper["a"].status # "running")

\* a search_components that used up all its requests, 4 to Mouser and 2 to
\* Digikey, and has ended
BoundedRetryWitness ==
    /\ scraper["a"].op = "search_components"
    /\ scraper["a"].pc = "idle"
    /\ scraper["a"].status # "running"
    /\ scraper["a"].requests["Mouser"] = max_retries + 1
    /\ scraper["a"].requests["Digikey"] = 2

\* C11: the waits after 429 answers that follow one another grow exponentially
\* with the attempt number (each wait is the one before times a constant factor
\* above 1), and the wait after a timeout or a transport error is 2 s whatever
\* the attempt number.
BackoffSchedule ==
    \A s \in Callers :
        LET b == scraper[s].backoffs
        IN  /\ \A k \in 1..(Len(b) - 1) : b[k + 1] > b[k]
            /\ \A k \in 2..(Len(b) - 1) : b[k + 1] * b[k - 1] = b[k] * b[k]
            /\ (scraper[s].pc = "retry_sleep" /\ b = << >>) => scraper[s].wait_time = 2

\* C12: a reader of the catalog that runs while reload_component_data runs
\* gets either the four collections held before the reload or the four
\* collections of the files being loaded, never some of each.
ReloadAtomicity ==
    reload.read => reload.seen \in {reload.old, reload.new}

\* C13: once reload_component_data has returned, the collections held for all
\* four families are the ones just loaded, and every suggest_* call made from
\* then on filters and scores the reloaded collection of its family.
ReloadTakesEffect ==
    reload.pc = "returned" =>
        /\ Held = reload.new
        /\ imported = reload.new
        /\ call.op = "suggest_mosfets" =>
              call = suggest_mosfets(reload.new.MOSFET_LIBRARY,
                                     heuristics_dir["mosfet"], call.args)
        /\ call.op = "suggest_capacitors" =>
              call = suggest_capacitors(reload.new.CAPACITOR_LIBRARY,
                                        heuristics_dir["capacitor"], call.args)
        /\ call.op = "suggest_input_capacitors" =>
              call = suggest_input_capacitors(reload.new.INPUT_CAPACITOR_LIBRARY,
                                              call.args)
        /\ call.op = "suggest_inductors" =>
              call = suggest_inductors(reload.new.INDUCTOR_LIBRARY,
                                       heuristics_dir["inductor"], call.args)

\* the components of a map, in the order of its keys
ComponentsOf(web_results) ==
    Concat([i \in 1..Len(web_results) |-> web_results[i].components])

\* what the call with use_web_search=False gives for the arguments
LocalPipeline(op, a) ==
    IF op = "suggest_mosfets"
    THEN suggest_mosfets(imported.MOSFET_LIBRARY, heuristics_dir["mosfet"], a)
    ELSE IF op = "suggest_capacitors"
    THEN suggest_capacitors(imported.CAPACITOR_LIBRARY, heuristics_dir["capacitor"], a)
    ELSE IF op = "suggest_input_capacitors"
    THEN suggest_input_capacitors(imported.INPUT_CAPACITOR_LIBRARY, a)
    ELSE suggest_inductors(imported.INDUCTOR_LIBRARY, heuristics_dir["inductor"], a)

\* C14: a suggest_* call with use_web_search=True whose lookup raises does not
\* raise: it returns the list the local pipeline returns for its arguments.
WebFailureFallsBackToLocal ==
    (call.outcome.op # "none" /\ call.lookup.raised) =>
        /\ call.outcome.status = "returned"
        /\ call.outcome.result = LocalPipeline(call.outcome.op, call.outcome.args).result

FamilyOf(op) ==
    IF op = "suggest_mosfets" THEN "mosfet"
    ELSE IF op = "suggest_capacitors" THEN "capacitor"
    ELSE IF op = "suggest_input_capacitors" THEN "input_capacitor"
    ELSE "inductor"

\* a line stating an N% current margin or derating, N in the accepted range
StatesCurrentMargin(line) ==
    /\ "current" \in line.kws
    /\ line.kws \cap {"margin", "derating"} # {}
    /\ line.nums # << >>
    /\ 10 <= line.nums[1]
    /\ line.nums[1] <= 100

\* the directory with the lines a predicate holds of taken out of its documents
Without(dir, Drop(_)) ==
    Dir(dir.broken,
        [i \in 1..Len(dir.files) |->
            Doc(dir.files[i].name,
                SelectSeq(dir.files[i].lines, LAMBDA l : ~Drop(l)))])

\* C16: for suggest_mosfets and suggest_inductors, when a document of the
\* family states an N% current margin or derating, the filter uses the current
\* margin 1 + N/100, and the other margins are what they are without that line.
MarginOverride ==
    call.op \in {"suggest_mosfets", "suggest_inductors"} =>
        LET dir == heuristics_dir[FamilyOf(call.op)]
            stated == UNION {{dir.files[i].lines[k].nums[1] :
                                 k \in {j \in 1..Len(dir.files[i].lines) :
                                           StatesCurrentMargin(dir.files[i].lines[j])}} :
                             i \in 1..Len(dir.files)}
            bare == Without(dir, StatesCurrentMargin)
            other == IF call.op = "suggest_mosfets"
                     THEN suggest_mosfets(imported.MOSFET_LIBRARY, bare, call.args)
                     ELSE suggest_inductors(imported.INDUCTOR_LIBRARY, bare, call.args)
        IN  (~dir.broken /\ stated # {}) =>
                /\ \E N \in stated : call.margins.current_margin = 100 + N
                /\ call.margins.voltage_margin = other.margins.voltage_margin
                /\ call.margins.tolerance = other.margins.tolerance

\* the catalog positions and the scores of a list, in its order
Ranking(list) == [k \in 1..Len(list) |-> <<list[k].pos, list[k].score>>]

\* C17: when the heuristics analyzer raises for the family, suggest_mosfets,
\* suggest_capacitors and suggest_inductors do not raise because of it: they
\* end as the call made with no heuristics directory does and return the list
\* ranked with the default margins, whatever the catalog and the arguments.
HeuristicsFailureNotSurfaced ==
    (/\ call.op \in {"suggest_mosfets", "suggest_capacitors", "suggest_inductors"}
     /\ heuristics_dir[FamilyOf(call.op)].broken)
    => LET default == IF call.op = "suggest_mosfets"
                      THEN suggest_mosfets(imported.MOSFET_LIBRARY, DirAbsent, call.args)
                      ELSE IF call.op = "suggest_capacitors"
                      THEN suggest_capacitors(imported.CAPACITOR_LIBRARY, DirAbsent, call.args)
                      ELSE suggest_inductors(imported.INDUCTOR_LIBRARY, DirAbsent, call.args)
       IN  /\ call.status = default.status
           /\ call.margins = default.margins
           /\ Ranking(call.result) = Ranking(default.result)

----------------------------------------------------------------------------
(* lib/document_analyzer.py : what the analyzers report for a directory *)

\* the buckets generate_updated_*_recommendations turn into a recommendation,
\* in the order of their if statements
MosfetRecommended == <<"voltage_derating_guidelines", "current_derating_guidelines", "rdson_optimization", "gate_charge_considerations", "application_specific">>

CapacitorRecommended == <<"voltage_derating_guidelines", "esr_optimization", "ripple_current_guidelines", "type_selection_logic", "application_specific">>

InductorRecommended == <<"current_rating_guidelines", "inductance_selection", "core_material_recommendations", "frequency_considerations", "application_specific">>

\* analysis_results['recommendations']: one recommendation for each listed
\* bucket that is not empty once the documents' criteria are combined; none
\* is generated when documents_found is empty
generate_updated_recommendations(chain, listed, files) ==
    SelectSeq(listed, LAMBDA b : \E i \in 1..Len(files) : Bucket(chain, files[i].lines, b) # << >>)

\* the analyzer of a family and the recommendations it returns
AnalysisOf(f, dir) ==
    IF f = "mosfet" THEN analyze_mosfet_heuristics(dir)
    ELSE IF f = "capacitor" THEN analyze_capacitor_heuristics(dir)
    ELSE analyze_inductor_heuristics(dir)

RecommendationsOf(f, dir) ==
    IF f = "mosfet" THEN generate_updated_recommendations(MosfetChain, MosfetRecommended, dir.files)
    ELSE IF f = "capacitor" THEN generate_updated_recommendations(CapacitorChain, CapacitorRecommended, dir.files)
    ELSE generate_updated_recommendations(InductorChain, InductorRecommended, dir.files)

\* a directory from which no guidance can be read: missing or without a
\* document (no files), or every document of it unparseable
NothingToRead(dir) == \A i \in 1..Len(dir.files) : dir.files[i].lines = << >>

\* C18  Analyzer degradation: for a family whose heuristics directory is
\* missing, holds no document, or holds only documents that cannot be parsed,
\* the analyzer of the family a suggest_* call has just run returns
\* updated_algorithm = false with empty documents_found, selection_criteria
\* and recommendations; updated_algorithm is true only when guidance was read
\* from a document.
AnalyzerDegradation ==
    (/\ call.op \in {"suggest_mosfets", "suggest_capacitors", "suggest_inductors"}
     /\ ~heuristics_dir[FamilyOf(call.op)].broken)
    => LET dir == heuristics_dir[FamilyOf(call.op)]
           analysis == AnalysisOf(FamilyOf(call.op), dir)
       IN  /\ NothingToRead(dir) =>
                 /\ ~analysis.updated_algorithm
                 /\ analysis.documents_found = << >>
                 /\ analysis.selection_criteria = << >>
                 /\ RecommendationsOf(FamilyOf(call.op), dir) = << >>
           /\ analysis.updated_algorithm => ~NothingToRead(dir)

\* a call one of whose divisors is a target of 0: the required capacitance or
\* inductance, or a MOSFET voltage or current target
ZeroDenominator(c) ==
    \/ c.op \in {"suggest_capacitors", "suggest_input_capacitors", "suggest_inductors"} /\ c.args.required = 0
    \/ c.op = "suggest_mosfets" /\ (c.args.max_voltage = 0 \/ c.args.max_current = 0)

\* C19  Zero-denominator guard: suggest_capacitors, suggest_input_capacitors
\* and suggest_inductors called with a required capacitance or inductance of 0,
\* and suggest_mosfets called with a voltage or current target of 0, raise no
\* division error: every catalog entry is no match and a list is returned.
ZeroDenominatorGuard ==
    ZeroDenominator(call) =>
        /\ call.status = "returned"
        /\ call.cands = << >>
        /\ call.result = << >>

----------------------------------------------------------------------------
(* The divisions of the scoring steps *)

\* a call all of whose targets are positive
PositiveTargets(c) ==
    \/ c.op = "suggest_mosfets" /\ c.args.max_voltage > 0 /\ c.args.max_current > 0
    \/ c.op \in {"suggest_capacitors", "suggest_input_capacitors"} /\ c.args.required > 0 /\ c.args.max_voltage > 0
    \/ c.op = "suggest_inductors" /\ c.args.required > 0 /\ c.args.max_current > 0

\* the estimate taken whenever ripple_rating is unknown, esr known or not
EstimatedRippleDivisorsUnguarded(capacitor) ==
    IF capacitor.ripple_rating > 0 THEN << >> ELSE <<capacitor.esr>>

\* input_capacitor_heuristics.py: estimated_ripple divides by capacitor.esr
\* only in the branch taken when ripple_rating is unknown and esr is known
EstimatedRippleDivisors(capacitor) ==
    IF capacitor.ripple_rating > 0 THEN << >>
    ELSE IF capacitor.esr > 0 THEN <<capacitor.esr>>
    ELSE << >>

\* the divisors the scoring step of the call evaluates for the catalog entry
\* at position i, in the order of the code (margins in percent)
ScoreDivisors(c, i) ==
    IF c.op = "suggest_mosfets"
    THEN <<c.args.max_voltage * c.margins.voltage_margin, c.args.max_current * c.margins.current_margin>>
    ELSE IF c.op = "suggest_capacitors"
    THEN <<c.args.max_voltage * c.margins.voltage_margin>>
    ELSE IF c.op = "suggest_input_capacitors"
    THEN <<c.args.max_voltage>> \o EstimatedRippleDivisors(LibraryOf(c.op)[i]) \o <<c.args.required, c.args.max_voltage>>
    ELSE <<c.args.required, c.args.max_current * c.margins.current_margin>>

----------------------------------------------------------------------------
(* search_mouser : the extraction strategies *)

\* the text of the page holds part-number-like patterns
HasPartNumbers(page) == page \in {"parts", "grid_parts"}

\* C21  Extraction strategy order in search_mouser: once the Mouser page of a
\* search has been parsed, a page whose text holds part numbers gives the parts
\* extracted from it, also when the page holds structured containers as well,
\* and the static fallback data is the result only for a page from which no
\* strategy extracts a component.
ExtractionStrategyOrder ==
    \A s \in Callers :
        LET r == scraper[s]
        IN  /\ HasPartNumbers(r.page) =>
                /\ r.source["Mouser"] = "scraped"
                /\ \E unique_parts \in UniqueParts : r.results["Mouser"] = Take(unique_parts, 5)
            /\ r.source["Mouser"] = "fallback" => r.page \in {"grid", "empty"}

----------------------------------------------------------------------------
(* Ranking *)

\* C22  Stable tie-break: in the ranked list of a suggest_* call that returns,
\* scores do not increase, two entries with equal scores stand in catalog
\* order, and the returned list is the first five of the ranked list, so that
\* of two equal entries the truncation keeps the earlier one.
StableTieBreak ==
    call.status = "returned" =>
        /\ \A k, l \in 1..Len(call.suggestions) :
               k < l =>
                   /\ call.suggestions[k].score >= call.suggestions[l].score
                   /\ call.suggestions[k].score = call.suggestions[l].score
                          => call.suggestions[k].pos < call.suggestions[l].pos
        /\ Ranking(call.result) = Ranking(Take(call.suggestions, 5))

StableTieBreakWitness ==
    /\ call.status = "returned"
    /\ \E k, l \in 1..Len(call.result) :
           /\ k < l
           /\ call.result[k].score = call.result[l].score

\* the tag the loop after the sort appends: "Analysis from: <documents>" in
\* suggest_mosfets, suggest_capacitors and suggest_inductors, "Input capacitor
\* design heuristics applied" in suggest_input_capacitors
IsProvenanceTag(tag) == tag.text \in {"Analysis from", "Input capacitor design heuristics applied"}

\* how many provenance tags a suggestion carries
ProvenanceTags(suggestion) ==
    Cardinality({k \in 1..Len(suggestion.heuristics_applied) : IsProvenanceTag(suggestion.heuristics_applied[k])})

\* C23  Provenance tag placement: a local call that returns a non-empty list
\* has appended the provenance tag, once and at the end, to heuristics_applied
\* of the highest-ranked suggestion; no other suggestion carries it, and the
\* ranking by score is that of the sort before the tag was appended.
ProvenanceTagPlacement ==
    (call.status = "returned" /\ call.result # << >>)
    => /\ ProvenanceTags(call.result[1]) = 1
       /\ IsProvenanceTag(call.result[1].heuristics_applied[Len(call.result[1].heuristics_applied)])
       /\ \A k \in 2..Len(call.suggestions) : ProvenanceTags(call.suggestions[k]) = 0
       /\ SortByScore(call.suggestions) = call.suggestions

----------------------------------------------------------------------------
(* suggest_inductors over inductor files of one and of several rows, no    *)
(* heuristics documents or one                                             *)

InductorScoreInit ==
    /\ csv \in {[f \in Families |-> IF f = "inductor" THEN i ELSE "ok"] : i \in {"ok", "example"}}
    /\ Import
    /\ reload = NoReload
    /\ heuristics_dir \in {HeuristicsNone, HeuristicsOneDoc}
    /\ call = NoCall
    /\ pinned = NoPin
    /\ WEB_SCRAPING_AVAILABLE = TRUE
    /\ WebIdle

InductorScoreNext ==
    \E r \in {470, 400, 10, 22}, c \in {200, 100, 125, 300}, f \in Frequencies : SuggestInductors(r, c, f)

InductorScoreSpec == InductorScoreInit /\ [][InductorScoreNext]_vars

\* the score of the formula over the denominator den, a multiple of 200, of
\* L_req and of rc: 100, less 50 * |L - L_req| / L_req, less 0.01 * DCR (times
\* 1.5 above 100 kHz), the utilization rule on r = current / (max_current *
\* current_margin) with rc = max_current * current_margin in percent, and 5
\* more above 100 kHz for a package with 'SO' in its name
FormulaScore(inductor, a, rc, den) ==
    100 * den
    - 50 * Abs(inductor.inductance - a.required) * (den \div a.required)
    - inductor.dcr * (IF a.frequency > 100 THEN 3 ELSE 2) * (den \div 200)
    + (IF inductor.current * 100 > 2 * rc THEN -(10 * (inductor.current * 100 - 2 * rc) * (den \div rc))
       ELSE IF 12 * rc <= inductor.current * 1000 /\ inductor.current * 1000 <= 18 * rc THEN 5 * den
       ELSE 0)
    + (IF a.frequency > 100 /\ HasSO(inductor.package) THEN 5 * den ELSE 0)

\* the call of the example: 470 uH, 2.0 A, 65 kHz over the one-row file
ExampleCall ==
    /\ call.op = "suggest_inductors"
    /\ imported.INDUCTOR_LIBRARY = ExampleInductorRows
    /\ heuristics_dir["inductor"].files = << >>
    /\ call.args.required = 470 /\ call.args.max_current = 200 /\ call.args.frequency = 65

\* C24  Inductor score formula: with no heuristics documents, every suggestion
\* of a suggest_inductors call has the score of the formula, and the call with
\* 470 uH, 2.0 A, 65 kHz over the catalog holding the single inductor 470 uH,
\* 2.5 A, Isat 3.0 A, 280 mOhm returns exactly one suggestion, with score 97.2
\* and a reason built from the values 470 and 2.5 A.
InductorScoreFormula ==
    (/\ call.op = "suggest_inductors"
     /\ call.status = "returned"
     /\ heuristics_dir["inductor"].files = << >>)
    => /\ \A k \in 1..Len(call.suggestions) :
              LET rc == call.args.max_current * call.margins.current_margin
              IN  /\ call.den % 200 = 0 /\ call.den % call.args.required = 0 /\ call.den % rc = 0
                  /\ call.suggestions[k].score
                         = FormulaScore(call.suggestions[k].component, call.args, rc, call.den)
       /\ ExampleCall =>
              /\ Len(call.result) = 1
              /\ call.result[1].score * 10 = 972 * call.den
              /\ call.result[1].reason.values[1] = 470
              /\ call.result[1].reason.values[2] = 250

InductorScoreFormulaWitness ==
    /\ ExampleCall
    /\ call.status = "returned"
    /\ Len(call.result) = 1

----------------------------------------------------------------------------
(* The utilization rules of the four scoring steps *)

\* one application of a utilization rule: the ratio num / rd it looks at and
\* the change delta of the score over the denominator of the call
Utilization(num, rd, delta) == [num |-> num, rd |-> rd, delta |-> delta]

\* the utilization rules the scoring step of call c applied to the catalog
\* entry e: voltage_ratio and current_ratio in suggest_mosfets, voltage_ratio
\* in suggest_capacitors and suggest_input_capacitors, current_ratio in
\* suggest_inductors (margins in percent)
UtilizationRules(c, e) ==
    LET rv == c.args.max_voltage * c.margins.voltage_margin
        rc == c.args.max_current * c.margins.current_margin
        h  == Heuristics(FALSE, NoAnalysis)
    IN  IF c.op = "suggest_mosfets"
        THEN <<Utilization(e.vds * 100, rv, MosfetRules(e, c.args, rv, rc, c.den, h)[2].delta),
               Utilization(e.id * 100, rc, MosfetRules(e, c.args, rv, rc, c.den, h)[3].delta)>>
        ELSE IF c.op = "suggest_capacitors"
        THEN <<Utilization(e.voltage * 100, rv, CapacitorRules(e, c.args, rv, c.den, h)[3].delta)>>
        ELSE IF c.op = "suggest_input_capacitors"
        THEN <<Utilization(e.voltage, c.args.max_voltage, InputCapacitorRules(e, c.args, c.den)[2].delta)>>
        ELSE <<Utilization(e.current * 100, rc, InductorRules(e, c.args, rc, c.den, h)[3].delta)>>

\* C25  Utilization rule: in every family, each utilization rule applied to a
\* suggestion of a returned call adds 5 to the score exactly when the ratio is
\* in [1.2, 1.8], takes off a multiple of (ratio - 2) exactly when the ratio is
\* above 2, and leaves the score alone otherwise.
UtilizationRule ==
    call.status = "returned" =>
        \A k \in 1..Len(call.suggestions) :
            LET rules == UtilizationRules(call, call.suggestions[k].component)
            IN  \A n \in 1..Len(rules) :
                    LET u == rules[n]
                        band == 12 * u.rd <= 10 * u.num /\ 10 * u.num <= 18 * u.rd
                        over == u.num > 2 * u.rd
                    IN  /\ band <=> u.delta = 5 * call.den
                        /\ over <=> u.delta < 0
                        /\ over => /\ call.den % u.rd = 0
                                   /\ \E coef \in 1..20 : u.delta = -(coef * (u.num - 2 * u.rd) * (call.den \div u.rd))
                        /\ (~band /\ ~over) => u.delta = 0

----------------------------------------------------------------------------
(* The manufacturer bonus *)

\* the bucket whose guidelines the manufacturer loop of the family reads
ManufacturerBucket(op) ==
    IF op = "suggest_inductors" THEN "core_material_recommendations" ELSE "general_guidelines"

\* the selection criteria the call got from the analyzer of its family
CriteriaOf(c) == AnalysisOf(FamilyOf(c.op), heuristics_dir[FamilyOf(c.op)]).selection_criteria

\* a guideline of the bucket, in some document, names the manufacturer
Mentioned(c, manufacturer) ==
    \E i \in 1..Len(CriteriaOf(c)) :
        \E g \in 1..Len(CriteriaOf(c)[i][ManufacturerBucket(c.op)]) :
            manufacturer \in CriteriaOf(c)[i][ManufacturerBucket(c.op)][g].mfrs

\* how often a suggestion carries the manufacturer tag
ManufacturerTags(suggestion) ==
    Cardinality({k \in 1..Len(suggestion.heuristics_applied) : suggestion.heuristics_applied[k].text = "Recommended manufacturer from heuristics"})

\* C26  Manufacturer bonus is fixed: in a returned call of suggest_mosfets,
\* suggest_capacitors or suggest_inductors, a suggestion whose manufacturer is
\* named in the extracted guidance got +10 and the manufacturer tag exactly
\* once, however many documents or lines name it, and every other suggestion
\* got neither.
ManufacturerBonusFixed ==
    (/\ call.op \in {"suggest_mosfets", "suggest_capacitors", "suggest_inductors"}
     /\ call.status = "returned")
    => \A k \in 1..Len(call.suggestions) :
           LET m == call.suggestions[k].component.manufacturer
               rule == ManufacturerRule(CriteriaOf(call), ManufacturerBucket(call.op), m, call.den)
           IN  IF Mentioned(call, m)
               THEN rule.delta = 10 * call.den /\ ManufacturerTags(call.suggestions[k]) = 1
               ELSE rule.delta = 0 /\ ManufacturerTags(call.suggestions[k]) = 0

----------------------------------------------------------------------------
(* lib/component_display.py : the source shown for a suggestion *)

\* row['Source'] of create_component_table: getattr(comp, 'distributor',
\* 'Local Database'); the part records of the catalogs have no distributor
Source(comp) ==
    IF "distributor" \in DOMAIN comp THEN comp.distributor ELSE "Local Database"

\* the collection the call read holds the built-in fallback list, substituted
\* for a catalog file that is missing or does not parse
FromFallbackList(c) ==
    \/ c.op = "suggest_mosfets" /\ imported.MOSFET_LIBRARY = get_fallback_mosfets
    \/ c.op = "suggest_capacitors" /\ imported.CAPACITOR_LIBRARY = get_fallback_capacitors
    \/ c.op = "suggest_inductors" /\ imported.INDUCTOR_LIBRARY = get_fallback_inductors

\* C27  Degradation is observable: the source a returned suggestion carries is
\* the one of live catalog data exactly when the collection it was taken from
\* was loaded from the catalog file, and another one when the built-in
\* fallback list was substituted.
DegradationObservable ==
    (call.status = "returned" /\ call.op \in {"suggest_mosfets", "suggest_capacitors", "suggest_inductors"})
    => \A k \in 1..Len(call.result) :
           Source(call.result[k].component) = "Local Database" <=> ~FromFallbackList(call)

----------------------------------------------------------------------------
(* Loading catalog files some of whose numeric cells are empty *)

\* the states of the file of a family: the capacitor file has no row with an
\* empty cell here
FileStates(f) == IF f = "capacitor" THEN {"ok", "missing"} ELSE {"ok", "missing", "gaps"}

LoadInit ==
    /\ csv \in {files \in [Families -> {"ok", "missing", "gaps"}] : \A f \in Families : files[f] \in FileStates(f)}
    /\ Import
    /\ reload = NoReload
    /\ heuristics_dir = HeuristicsNone
    /\ call = NoCall
    /\ pinned = NoPin
    /\ WEB_SCRAPING_AVAILABLE = TRUE
    /\ WebIdle

\* a catalog file is replaced
EditCsv ==
    /\ \E f \in Families :
          \E file \in FileStates(f) :
              /\ file # csv[f]
              /\ csv' = [csv EXCEPT ![f] = file]
    /\ UNCHANGED <<MOSFET_LIBRARY, CAPACITOR_LIBRARY, INPUT_CAPACITOR_LIBRARY, INDUCTOR_LIBRARY, imported, reload, heuristics_dir, call, pinned, webVars>>

LoadNext ==
    \/ EditCsv
    \/ reload_component_data

LoadSpec == LoadInit /\ [][LoadNext]_vars

\* the numeric fields of the records of the four collections
NumericFields ==
    UNION {{MOSFET_LIBRARY[i].vds, MOSFET_LIBRARY[i].id, MOSFET_LIBRARY[i].rdson, MOSFET_LIBRARY[i].qg} : i \in 1..Len(MOSFET_LIBRARY)}
    \cup UNION {{CAPACITOR_LIBRARY[i].capacitance, CAPACITOR_LIBRARY[i].voltage} : i \in 1..Len(CAPACITOR_LIBRARY)}
    \cup UNION {{INPUT_CAPACITOR_LIBRARY[i].capacitance, INPUT_CAPACITOR_LIBRARY[i].voltage, INPUT_CAPACITOR_LIBRARY[i].esr, INPUT_CAPACITOR_LIBRARY[i].esl, INPUT_CAPACITOR_LIBRARY[i].ripple_rating} : i \in 1..Len(INPUT_CAPACITOR_LIBRARY)}
    \cup UNION {{INDUCTOR_LIBRARY[i].inductance, INDUCTOR_LIBRARY[i].current, INDUCTOR_LIBRARY[i].dcr, INDUCTOR_LIBRARY[i].sat_current} : i \in 1..Len(INDUCTOR_LIBRARY)}

\* C28  Sentinel coercion at load: a catalog file with a missing numeric cell
\* loads with the sentinel 0 in the field of the cell, for every family, so
\* every numeric field of every record of the four collections is a number
\* that is not negative, never NaN.
SentinelCoercion ==
    \A x \in NumericFields : x # NaN /\ x >= 0

----------------------------------------------------------------------------
(* The capacitance band of suggest_capacitors *)

\* a catalog capacitor with exactly the required capacitance whose voltage
\* rating meets the voltage bound of the call
ExactMatch(c, i) ==
    LET e == LibraryOf(c.op)[i]
    IN  /\ e.capacitance = c.args.required
        /\ e.voltage * 100 >= c.args.max_voltage * c.margins.voltage_margin

\* C29  Exact match always qualifies: whatever the heuristics documents hold,
\* the capacitance band of a suggest_capacitors call contains the ratio 1 and
\* every catalog capacitor with exactly the required capacitance and a
\* voltage rating at the voltage bound or above passes the hard filter.
ExactMatchQualifies ==
    call.op = "suggest_capacitors" =>
        \A i \in 1..Len(LibraryOf(call.op)) :
            (ExactMatch(call, i) /\ Examined(call, i)) => i \in SeqToSet(call.cands)

----------------------------------------------------------------------------
(* Queries in local and in web mode over one catalog *)

QueryInit ==
    /\ csv \in {[f \in Families |-> "ok"], [f \in Families |-> "missing"]}
    /\ Import
    /\ reload = NoReload
    /\ heuristics_dir \in {HeuristicsNone, HeuristicsOneDoc}
    /\ call = NoCall
    /\ pinned = NoPin
    /\ WEB_SCRAPING_AVAILABLE = TRUE
    /\ WebIdle

\* use_web_search=False and use_web_search=True calls in any order; a lookup
\* that raises or finds nothing hands the call over to the local catalog
QueryNext ==
    \/ \E v \in {20, 40}, c \in {5, 10}, f \in Frequencies : SuggestMosfets(v, c, f)
    \/ \E r \in {10, 20}, v \in {5, 10}, f \in Frequencies : SuggestCapacitors(r, v, f)
    \/ \E r \in {10}, v \in {12, 24}, i \in RippleCurrents, f \in Frequencies :
          SuggestInputCapacitors(r, v, i, f)
    \/ \E r \in {10, 11}, c \in {200, 300}, f \in Frequencies : SuggestInductors(r, c, f)
    \/ \E v \in {20}, c \in {5, 10}, lookup \in Lookups : WebSuggestMosfets(v, c, lookup)
    \/ \E r \in {10}, v \in {5, 10}, lookup \in Lookups : WebSuggestCapacitors(r, v, lookup)
    \/ \E r \in {10}, v \in {12, 24}, lookup \in Lookups : WebSuggestInputCapacitors(r, v, lookup)
    \/ \E r \in {10}, c \in {200, 300}, lookup \in Lookups : WebSuggestInductors(r, c, lookup)

QuerySpec == QueryInit /\ [][QueryNext]_vars

\* C30  Catalog is read-only for queries: no suggest_* call, in local mode, in
\* web mode or failing over from web to local, changes any of the four catalog
\* collections, neither the ones component_data holds nor the ones the
\* suggestion module imported: same length, same order, same field values.
CatalogReadOnly ==
    [][UNCHANGED <<MOSFET_LIBRARY, CAPACITOR_LIBRARY, INPUT_CAPACITOR_LIBRARY, INDUCTOR_LIBRARY, imported>>]_vars

\* a use_web_search=True call whose lookup raised has returned suggestions from
\* the local catalog, and the collections are as the loaders gave them
CatalogReadOnlyWitness ==
    /\ "lookup" \in DOMAIN call
    /\ call.lookup.raised
    /\ call.outcome.status = "returned"
    /\ Len(call.outcome.result) > 0
    /\ Held = Loaded(csv)
    /\ imported = Loaded(csv)

============================================================================
